---- MODULE Spec2Model ----
(***************************************************************************)
(* Model of the orbit document-processing services:                        *)
(*   DocumentService  (src/src/app/service/document_service.py)            *)
(*   TextractService  (src/src/app/service/textract_service.py)            *)
(*   S3Service        (src/src/app/service/s3_service.py)                  *)
(*                                                                         *)
(* Strings are sequences of tokens.  A token is "/", "." or a non-empty    *)
(* run of letters, so that splitting on "/" and on "." acts on the token   *)
(* sequence exactly as it acts on the characters of the string.            *)
(***************************************************************************)
EXTENDS Integers, Sequences, FiniteSets, TLC

\* ---------------------------------------------------------------- bounds
MaxKeyLen == 5
\* largest polling interval / delay a caller passes to a monitor
MaxInterval == 2
\* largest max_time a caller passes to monitor_job_progress
MaxTime == 3
\* largest max_attempts a caller passes to wait_for_job_completion
MaxAttempts == 3
\* seconds that a status check and a sleep may take beyond the interval
MaxJitter == 1
\* largest number of result pages the analysis backend holds for a job
MaxPages == 3
\* requests of one get_document_analysis call that are followed
MaxRequests == 4
\* longest chunk sequence the narrative grouper is given
MaxChunks == 3
\* upload requests made to the API
MaxUploads == 2
\* status checks of one background workflow that are followed
MaxPolls == 1
\* messages in the queue, and the most one receive may ask for
MaxMessages == 3

\* ------------------------------------------------------- python constants
\* None, where a str that names something is expected
None == "None"

\* None, where a key or a path is expected: keys and paths are not empty
NoneKey == <<>>

\* None, where a dict is expected
NoneDict == [none |-> TRUE]

\* def monitor_job_progress(self, job_id, polling_interval=30, max_time=3600)
DefaultPollingInterval == 30

DefaultMaxTime == 3600

Exceptions == {"ClientError", "TimeoutError", "FileNotFoundError"}

\* ------------------------------------------------------ pathlib.PurePath
Alphabet == {"a", "pdf", "/", "."}

Keys == UNION {[1..n -> Alphabet] : n \in 1..MaxKeyLen}

\* a/b/c.pdf, the key of the documented example
ExampleKey == <<"a", "/", "b", "/", "c", ".", "pdf">>

\* index of the first "/" of s, 0 when there is none
FirstSep(s) ==
    IF \E i \in 1..Len(s) : s[i] = "/"
    THEN CHOOSE i \in 1..Len(s) : s[i] = "/" /\ \A j \in 1..(i - 1) : s[j] # "/"
    ELSE 0

\* str.split("/")
RECURSIVE SplitSep(_)
SplitSep(s) ==
    LET i == FirstSep(s)
    IN  IF i = 0 THEN <<s>>
        ELSE <<SubSeq(s, 1, i - 1)>> \o SplitSep(SubSeq(s, i + 1, Len(s)))

\* "/".join(parts)
RECURSIVE JoinSep(_)
JoinSep(parts) ==
    IF parts = <<>> THEN <<>>
    ELSE IF Len(parts) = 1 THEN parts[1]
    ELSE parts[1] \o <<"/">> \o JoinSep(Tail(parts))

\* number of leading "/" of s
RECURSIVE LeadingSeps(_)
LeadingSeps(s) ==
    IF s # <<>> /\ s[1] = "/" THEN 1 + LeadingSeps(Tail(s)) ELSE 0

\* _PosixFlavour.splitroot: exactly two leading slashes are kept as the root "//"
PathRoot(s) ==
    LET n == LeadingSeps(s)
    IN  IF n = 0 THEN <<>> ELSE IF n = 2 THEN <<"/", "/">> ELSE <<"/">>

\* _Flavour.parse_parts: the components, without empty ones and without "."
IsComponent(c) == c # <<>> /\ c # <<".">>

PathParts(s) == SelectSeq(SplitSep(s), IsComponent)

\* str(PurePath): root + components joined by "/", or "." for the empty path
PathStr(root, parts) ==
    IF root = <<>> /\ parts = <<>> THEN <<".">> ELSE root \o JoinSep(parts)

\* str(PurePath(s).parent)
PathParent(s) ==
    LET parts == PathParts(s)
    IN  IF parts = <<>> THEN PathStr(PathRoot(s), <<>>)
        ELSE PathStr(PathRoot(s), SubSeq(parts, 1, Len(parts) - 1))

\* PurePath(s).name
PathName(s) ==
    LET parts == PathParts(s)
    IN  IF parts = <<>> THEN <<>> ELSE parts[Len(parts)]

\* index of the last "." of name, 0 when there is none (str.rfind + 1)
LastDot(name) ==
    IF \E i \in 1..Len(name) : name[i] = "."
    THEN CHOOSE i \in 1..Len(name) : name[i] = "." /\ \A j \in (i + 1)..Len(name) : name[j] # "."
    ELSE 0

\* PurePath(s).stem: the name up to its last dot, unless that dot is the first
\* or the last character of the name
PathStem(s) ==
    LET name == PathName(s)
        i == LastDot(name)
    IN  IF 1 < i /\ i < Len(name) THEN SubSeq(name, 1, i - 1) ELSE name

\* os.path.basename(path): what follows the last "/"
RECURSIVE Basename(_)
Basename(path) ==
    LET i == FirstSep(path)
    IN  IF i = 0 THEN path ELSE Basename(SubSeq(path, i + 1, Len(path)))

\* f"{path.parent}/{path.stem}_results.json"
ResultsKey(original_s3_key) ==
    PathParent(original_s3_key) \o <<"/">> \o PathStem(original_s3_key) \o <<"_results.json">>

\* ---------------------------------------------------- pagination tokens
\* a response without the key NextToken, and next_token = None
NoToken == [present |-> FALSE, value |-> 0]

\* NextToken: ""
EmptyToken == [present |-> TRUE, value |-> 0]

\* the token the backend hands out for its page p
TokenTo(p) == [present |-> TRUE, value |-> p]

\* if next_token:
Truthy(token) == token.present /\ token.value # 0

\* 'NextToken' in response
HasNextToken(response) == response.NextToken.present

\* a loop that keeps the latest response only
KeepLastPage(pages_, response) == <<response>>

\* pages.append(response)
AppendPage(pages_, response) == Append(pages_, response)

\* a result that reports every fetched job as succeeded
AnalysisResultSucceeded(job, pages_) ==
    [JobId |-> job,
     JobStatus |-> "SUCCEEDED",
     DocumentMetadata |-> pages_[1].DocumentMetadata,
     Pages |-> pages_]

\* the dict get_document_analysis returns
AnalysisResult(job, pages_) ==
    [JobId |-> job,
     JobStatus |-> pages_[1].JobStatus,
     DocumentMetadata |-> pages_[1].DocumentMetadata,
     Pages |-> pages_]

\* ------------------------------------------------------------ job status
Terminal == {"SUCCEEDED", "FAILED", "PARTIAL_SUCCESS"}

NonTerminal == {"IN_PROGRESS", "SUBMITTED"}

Statuses == Terminal \cup NonTerminal

\* a monitor that does not take PARTIAL_SUCCESS for a terminal status
IsTerminalWithoutPartial(s) == s \in {"SUCCEEDED", "FAILED"}

\* status in ['SUCCEEDED', 'FAILED', 'PARTIAL_SUCCESS']
IsTerminal(s) == s \in {"SUCCEEDED", "FAILED", "PARTIAL_SUCCESS"}

\* a loop that still runs when the elapsed time has reached max_time
WithinTimeInclusive(elapsed, bound) == elapsed <= bound

\* while elapsed_time < max_time
WithinTime(elapsed, bound) == elapsed < bound

\* a loop that makes one attempt more than max_attempts
WithinAttemptsInclusive(n, bound) == n <= bound

\* for attempt in range(max_attempts)
WithinAttempts(n, bound) == n < bound

VARIABLES
    calls,             \* log of the collaborator calls made, with their outcomes
    backend_statuses,  \* the statuses the analysis backend may report
    page_count,        \* the number of result pages the backend holds for the job
    token_of,          \* the NextToken of each of these pages
    job_status,        \* the status the analysis backend holds for the job
    bucket,            \* the keys of the objects in the S3 bucket
    job_id,            \* the id of the analysis job
    mon_fn,            \* the monitor running
    mon_pc,            \* its position
    polling_interval, max_time,   \* arguments of monitor_job_progress
    delay, max_attempts,          \* arguments of wait_for_job_completion
    elapsed_time, attempt,        \* their loop variables
    status,                       \* the status last read by the monitor
    fetch_pc,          \* position of get_document_analysis
    pages, next_token, \* its local variables
    requests,          \* the NextToken argument of each request it has sent
    fetch_result,      \* the dict it returned
    call_no,           \* how many times the caller has called it
    first_call,        \* what its first call sent and returned
    up_pc,             \* position of upload_results_to_s3
    original_s3_key,   \* its argument
    results_key,       \* the key it returns
    wf_fn,             \* the workflow running: process_document or process_document_fileobj
    wf_pc,             \* its position
    pdf_path, filename, s3_key,   \* its arguments
    file_exists,       \* os.path.exists(pdf_path)
    document_key, wf_status, results, wf_results_key,   \* its local variables
    wf_result,         \* the dict it returned
    chunks,            \* argument of group_narrative_by_title
    chunk_no,          \* how many chunks its loop has taken
    grp_pc,            \* its position
    result, current_titles, current_content, current_page_numbers,  \* its local variables
    request,           \* the upload requests: handler position, file name, response
    task,              \* the background task of each upload request
    jobs,              \* the jobs the analysis backend has started, by job id
    res_pc,            \* position of the results endpoint
    res_status,        \* the status it read
    res_response,      \* what it answered
    queue,             \* the ids of the messages in the SQS queue
    max_messages,      \* argument of process_messages
    sqs_pc,            \* its position
    messages, message_no, processed_count,   \* its local variables
    sqs_calls,         \* log of the SQS client calls and handler calls it made
    sqs_result         \* the count it returned

envVars == <<backend_statuses, page_count, token_of>>

monVars == <<mon_fn, mon_pc, polling_interval, max_time, delay, max_attempts,
             elapsed_time, attempt, status>>

monArgs == <<mon_fn, polling_interval, max_time, delay, max_attempts>>

fetchVars == <<fetch_pc, pages, next_token, requests, fetch_result, call_no, first_call>>

upVars == <<up_pc, original_s3_key, results_key>>

wfArgs == <<wf_fn, pdf_path, filename, s3_key, file_exists>>

wfVars == <<wfArgs, wf_pc, document_key, wf_status, results, wf_results_key, wf_result>>

grpVars == <<chunks, chunk_no, grp_pc, result, current_titles, current_content,
             current_page_numbers>>

apiVars == <<request, task, jobs>>

resVars == <<res_pc, res_status, res_response>>

\* the state outside the service calls of one workflow
sqsVars == <<queue, max_messages, sqs_pc, messages, message_no, processed_count,
             sqs_calls, sqs_result>>

extVars == <<grpVars, apiVars, resVars, sqsVars>>

\* the state of one workflow, but for the bucket
svcVars == <<calls, envVars, job_status, job_id, monVars, fetchVars, upVars, wfVars>>

vars == <<svcVars, bucket, extVars>>

Event(op, out) == [op |-> op, out |-> out]

\* a status check that starts an analysis job before it reads the status
CheckJobStatusStartingJob(out) ==
    /\ job_status' = IF out = "ClientError" THEN job_status ELSE out
    /\ calls' = calls \o <<Event("start_document_analysis", "ok"),
                           Event("check_job_status", out)>>

\* TextractService.check_job_status: one read of the job's status; the
\* backend call may fail, and the ClientError is logged and raised again
CheckJobStatus(out) ==
    /\ job_status' = IF out = "ClientError" THEN job_status ELSE out
    /\ calls' = Append(calls, Event("check_job_status", out))

\* a sleep of the default interval, whatever interval is configured
SleepDefault(seconds) ==
    calls' = Append(calls, [op |-> "sleep", out |-> "ok", seconds |-> DefaultPollingInterval])

\* time.sleep(seconds)
Sleep(seconds) ==
    calls' = Append(calls, [op |-> "sleep", out |-> "ok", seconds |-> seconds])

\* -------------------------------- DocumentService.monitor_job_progress
MonitorBegin ==
    /\ UNCHANGED extVars
    /\ mon_fn = "monitor_job_progress" /\ mon_pc = "call"
    /\ elapsed_time' = 0
    /\ mon_pc' = "loop"
    /\ UNCHANGED <<calls, envVars, job_status, bucket, job_id, monArgs, attempt, status,
                   fetchVars, upVars, wfVars>>

MonitorPoll ==
    /\ UNCHANGED extVars
    /\ mon_fn = "monitor_job_progress" /\ mon_pc = "loop"
    /\ WithinTime(elapsed_time, max_time)
    /\ \E out \in backend_statuses \cup {"ClientError"} :
          /\ CheckJobStatus(out)
          /\ IF out = "ClientError"
             THEN mon_pc' = "ClientError" /\ status' = status
             ELSE /\ status' = out
                  /\ mon_pc' = IF IsTerminal(out) THEN "returned" ELSE "sleep"
    /\ UNCHANGED <<envVars, bucket, job_id, monArgs, elapsed_time, attempt,
                   fetchVars, upVars, wfVars>>

MonitorSleep ==
    /\ UNCHANGED extVars
    /\ mon_fn = "monitor_job_progress" /\ mon_pc = "sleep"
    /\ Sleep(polling_interval)
    /\ \E d \in 0..MaxJitter : elapsed_time' = elapsed_time + polling_interval + d
    /\ mon_pc' = "loop"
    /\ UNCHANGED <<envVars, job_status, bucket, job_id, monArgs, attempt, status,
                   fetchVars, upVars, wfVars>>

MonitorTimeout ==
    /\ UNCHANGED extVars
    /\ mon_fn = "monitor_job_progress" /\ mon_pc = "loop"
    /\ ~WithinTime(elapsed_time, max_time)
    /\ mon_pc' = "TimeoutError"
    /\ UNCHANGED <<calls, envVars, job_status, bucket, job_id, monArgs, elapsed_time,
                   attempt, status, fetchVars, upVars, wfVars>>

\* ------------------------------ TextractService.wait_for_job_completion
WaitBegin ==
    /\ UNCHANGED extVars
    /\ mon_fn = "wait_for_job_completion" /\ mon_pc = "call"
    /\ attempt' = 0
    /\ mon_pc' = "loop"
    /\ UNCHANGED <<calls, envVars, job_status, bucket, job_id, monArgs, elapsed_time,
                   status, fetchVars, upVars, wfVars>>

WaitPoll ==
    /\ UNCHANGED extVars
    /\ mon_fn = "wait_for_job_completion" /\ mon_pc = "loop"
    /\ WithinAttempts(attempt, max_attempts)
    /\ \E out \in backend_statuses \cup {"ClientError"} :
          /\ CheckJobStatus(out)
          /\ IF out = "ClientError"
             THEN mon_pc' = "ClientError" /\ status' = status
             ELSE /\ status' = out
                  /\ mon_pc' = IF IsTerminal(out) THEN "returned" ELSE "sleep"
    /\ UNCHANGED <<envVars, bucket, job_id, monArgs, elapsed_time, attempt,
                   fetchVars, upVars, wfVars>>

WaitSleep ==
    /\ UNCHANGED extVars
    /\ mon_fn = "wait_for_job_completion" /\ mon_pc = "sleep"
    /\ Sleep(delay)
    /\ attempt' = attempt + 1
    /\ mon_pc' = "loop"
    /\ UNCHANGED <<envVars, job_status, bucket, job_id, monArgs, elapsed_time, status,
                   fetchVars, upVars, wfVars>>

WaitTimeout ==
    /\ UNCHANGED extVars
    /\ mon_fn = "wait_for_job_completion" /\ mon_pc = "loop"
    /\ ~WithinAttempts(attempt, max_attempts)
    /\ mon_pc' = "TimeoutError"
    /\ UNCHANGED <<calls, envVars, job_status, bucket, job_id, monArgs, elapsed_time,
                   attempt, status, fetchVars, upVars, wfVars>>

\* -------------------------------- TextractService.get_document_analysis
\* textract_client.get_document_analysis(JobId=job_id[, NextToken=token]): the
\* backend answers a request without a token with its first page, and a request
\* with the token of a page with that page
BackendResponse(token) ==
    LET p == IF token.present THEN token.value ELSE 1
    IN  [JobStatus |-> job_status,
         DocumentMetadata |-> [Pages |-> page_count],
         Page |-> p,
         NextToken |-> token_of[p]]

\* the NextToken argument of the next request: none unless next_token is truthy
RequestToken(token) == IF Truthy(token) THEN token ELSE NoToken

\* a service that keeps the pages of its last call
GetDocumentAnalysisBeginKeepingPages ==
    /\ UNCHANGED extVars
    /\ fetch_pc = "call"
    /\ next_token' = NoToken
    /\ requests' = <<>>
    /\ fetch_pc' = "request"
    /\ UNCHANGED <<calls, envVars, job_status, bucket, job_id, monVars, pages, fetch_result,
                   call_no, first_call, upVars, wfVars>>

GetDocumentAnalysisBegin ==
    /\ UNCHANGED extVars
    /\ fetch_pc = "call"
    /\ pages' = <<>>
    /\ next_token' = NoToken
    /\ requests' = <<>>
    /\ fetch_pc' = "request"
    /\ UNCHANGED <<calls, envVars, job_status, bucket, job_id, monVars, fetch_result,
                   call_no, first_call, upVars, wfVars>>

GetDocumentAnalysisRequest ==
    /\ UNCHANGED extVars
    /\ fetch_pc = "request"
    /\ Len(requests) < MaxRequests
    /\ LET response == BackendResponse(RequestToken(next_token))
       IN  /\ requests' = Append(requests, RequestToken(next_token))
           /\ pages' = AppendPage(pages, response)
           /\ IF HasNextToken(response)
              THEN /\ next_token' = response.NextToken
                   /\ fetch_pc' = "request"
                   /\ UNCHANGED <<fetch_result, calls>>
              ELSE /\ next_token' = next_token
                   /\ fetch_pc' = "returned"
                   /\ fetch_result' = AnalysisResult(job_id, pages')
                   /\ calls' = Append(calls, Event("get_document_analysis", "ok"))
    /\ UNCHANGED <<envVars, job_status, bucket, job_id, monVars, call_no, first_call,
                   upVars, wfVars>>

\* a request fails: the ClientError is logged and raised again
GetDocumentAnalysisError ==
    /\ UNCHANGED extVars
    /\ fetch_pc = "request"
    /\ requests' = Append(requests, RequestToken(next_token))
    /\ fetch_pc' = "ClientError"
    /\ calls' = Append(calls, Event("get_document_analysis", "ClientError"))
    /\ UNCHANGED <<envVars, job_status, bucket, job_id, monVars, pages, next_token,
                   fetch_result, call_no, first_call, upVars, wfVars>>

\* ---------------------------------- DocumentService.upload_results_to_s3
\* S3Service.upload_json puts the object, or fails with a ClientError that is
\* logged and raised again
UploadResultsToS3 ==
    /\ UNCHANGED extVars
    /\ up_pc = "call"
    /\ results_key' = ResultsKey(original_s3_key)
    /\ \/ /\ bucket' = bucket \cup {results_key'}
          /\ calls' = Append(calls, Event("upload_json", "ok"))
          /\ up_pc' = "returned"
       \/ /\ bucket' = bucket
          /\ calls' = Append(calls, Event("upload_json", "ClientError"))
          /\ up_pc' = "ClientError"
    /\ UNCHANGED <<envVars, job_status, job_id, monVars, fetchVars, original_s3_key, wfVars>>

\* ------------------------------------------------------------- callers
\* DocumentService.get_analysis_results passes the job id on and the result back
GetAnalysisResults ==
    /\ UNCHANGED extVars
    /\ fetch_pc = "idle" /\ call_no = 0
    /\ fetch_pc' = "call"
    /\ call_no' = 1
    /\ UNCHANGED <<calls, envVars, job_status, bucket, job_id, monVars, pages, next_token,
                   requests, fetch_result, first_call, upVars, wfVars>>

\* the results are asked for again, for the same job id
GetAnalysisResultsAgain ==
    /\ UNCHANGED extVars
    /\ fetch_pc = "returned" /\ call_no = 1
    /\ first_call' = [requests |-> requests, result |-> fetch_result]
    /\ fetch_pc' = "call"
    /\ call_no' = 2
    /\ UNCHANGED <<calls, envVars, job_status, bucket, job_id, monVars, pages, next_token,
                   requests, fetch_result, upVars, wfVars>>

\* the tokens of a backend with n pages: each page but the last carries the
\* token of the page after it
ProperTokens(n) == [p \in 1..n |-> IF p = n THEN NoToken ELSE TokenTo(p + 1)]

\* the tokens a backend with n pages may put on them, when it may also hand
\* out the empty string as a token
TokenMaps(n) ==
    {[p \in 1..n |-> IF p = n THEN NoToken
                     ELSE IF p \in e THEN EmptyToken ELSE TokenTo(p + 1)] :
        e \in SUBSET (1..(n - 1))}

\* ------------------------------------------------- the document workflow
\* the dict process_document and process_document_fileobj return
WorkflowResult(job, st, doc_key, res_key) ==
    [job_id |-> job, status |-> st, document_key |-> doc_key, results_key |-> res_key]

\* a workflow that takes PARTIAL_SUCCESS for success
ReturnsEarlyUnlessPartial(st) == st \notin {"SUCCEEDED", "PARTIAL_SUCCESS"}

\* if status != 'SUCCEEDED': return early
ReturnsEarly(st) == st # "SUCCEEDED"

\* DocumentService.upload_pdf_to_s3 (process_document, step 1): the file must
\* exist; the key defaults to the file's name; S3Service.upload_file may fail
UploadPdfToS3 ==
    /\ UNCHANGED extVars
    /\ wf_fn = "process_document" /\ wf_pc = "upload"
    /\ IF ~file_exists
       THEN /\ wf_pc' = "FileNotFoundError"
            /\ UNCHANGED <<calls, bucket, document_key>>
       ELSE LET key == IF s3_key = NoneKey THEN Basename(pdf_path) ELSE s3_key
            IN  \/ /\ bucket' = bucket \cup {key}
                   /\ calls' = Append(calls, Event("upload_file", "ok"))
                   /\ document_key' = key
                   /\ wf_pc' = "start"
                \/ /\ calls' = Append(calls, Event("upload_file", "ClientError"))
                   /\ wf_pc' = "ClientError"
                   /\ UNCHANGED <<bucket, document_key>>
    /\ UNCHANGED <<envVars, job_status, job_id, monVars, fetchVars, upVars, wfArgs,
                   wf_status, results, wf_results_key, wf_result>>

\* DocumentService.upload_pdf_fileobj_to_s3 (process_document_fileobj, step 1)
UploadPdfFileobjToS3 ==
    /\ UNCHANGED extVars
    /\ wf_fn = "process_document_fileobj" /\ wf_pc = "upload"
    /\ LET key == IF s3_key = NoneKey THEN filename ELSE s3_key
       IN  \/ /\ bucket' = bucket \cup {key}
              /\ calls' = Append(calls, Event("upload_fileobj", "ok"))
              /\ document_key' = key
              /\ wf_pc' = "start"
           \/ /\ calls' = Append(calls, Event("upload_fileobj", "ClientError"))
              /\ wf_pc' = "ClientError"
              /\ UNCHANGED <<bucket, document_key>>
    /\ UNCHANGED <<envVars, job_status, job_id, monVars, fetchVars, upVars, wfArgs,
                   wf_status, results, wf_results_key, wf_result>>

\* DocumentService.start_document_analysis (step 2): the backend assigns the job id
StartDocumentAnalysis ==
    /\ UNCHANGED extVars
    /\ wf_pc = "start"
    /\ \/ /\ job_id' = "job-1"
          /\ job_status' = "IN_PROGRESS"
          /\ calls' = Append(calls, Event("start_document_analysis", "ok"))
          /\ wf_pc' = "monitor"
       \/ /\ calls' = Append(calls, Event("start_document_analysis", "ClientError"))
          /\ wf_pc' = "ClientError"
          /\ UNCHANGED <<job_id, job_status>>
    /\ UNCHANGED <<envVars, bucket, monVars, fetchVars, upVars, wfArgs, document_key,
                   wf_status, results, wf_results_key, wf_result>>

\* status = self.monitor_job_progress(job_id) (step 3), with the default bounds
WfMonitorCall ==
    /\ UNCHANGED extVars
    /\ wf_pc = "monitor" /\ mon_pc = "idle"
    /\ mon_fn' = "monitor_job_progress"
    /\ polling_interval' = DefaultPollingInterval
    /\ max_time' = DefaultMaxTime
    /\ mon_pc' = "call"
    /\ wf_pc' = "monitoring"
    /\ UNCHANGED <<calls, envVars, job_status, bucket, job_id, delay, max_attempts,
                   elapsed_time, attempt, status, fetchVars, upVars, wfArgs, document_key,
                   wf_status, results, wf_results_key, wf_result>>

\* a workflow that uploads the results without fetching them first
WfMonitorReturnSkippingFetch ==
    /\ UNCHANGED extVars
    /\ wf_pc = "monitoring" /\ mon_pc = "returned"
    /\ wf_status' = status
    /\ IF status # "SUCCEEDED"
       THEN /\ wf_result' = [job_id |-> job_id, status |-> status,
                             document_key |-> document_key, results_key |-> NoneKey]
            /\ wf_pc' = "returned"
       ELSE /\ wf_result' = wf_result
            /\ wf_pc' = "persist"
    /\ elapsed_time' = 0
    /\ UNCHANGED <<calls, envVars, job_status, bucket, job_id, monArgs, mon_pc, attempt,
                   status, fetchVars, upVars, wfArgs, document_key, results,
                   wf_results_key>>

\* the monitor returns, and its clock reading is gone with it: any status but
\* SUCCEEDED ends the workflow
WfMonitorReturn ==
    /\ UNCHANGED extVars
    /\ wf_pc = "monitoring" /\ mon_pc = "returned"
    /\ wf_status' = status
    /\ IF ReturnsEarly(status)
       THEN /\ wf_result' = WorkflowResult(job_id, status, document_key, NoneKey)
            /\ wf_pc' = "returned"
       ELSE /\ wf_result' = wf_result
            /\ wf_pc' = "fetch"
    /\ elapsed_time' = 0
    /\ UNCHANGED <<calls, envVars, job_status, bucket, job_id, monArgs, mon_pc, attempt,
                   status, fetchVars, upVars, wfArgs, document_key, results,
                   wf_results_key>>

\* a workflow that reports a monitor error or timeout as the job status FAILED
WfMonitorRaiseAsFailed ==
    /\ UNCHANGED extVars
    /\ wf_pc = "monitoring" /\ mon_pc \in Exceptions
    /\ wf_status' = "FAILED"
    /\ wf_result' = [job_id |-> job_id, status |-> "FAILED",
                     document_key |-> document_key, results_key |-> NoneKey]
    /\ wf_pc' = "returned"
    /\ elapsed_time' = 0
    /\ UNCHANGED <<calls, envVars, job_status, bucket, job_id, monArgs, mon_pc, attempt,
                   status, fetchVars, upVars, wfArgs, document_key, results,
                   wf_results_key>>

\* the monitor raises: except Exception logs the error and raises it again
WfMonitorRaise ==
    /\ UNCHANGED extVars
    /\ wf_pc = "monitoring" /\ mon_pc \in Exceptions
    /\ wf_pc' = mon_pc
    /\ elapsed_time' = 0
    /\ UNCHANGED <<calls, envVars, job_status, bucket, job_id, monArgs, mon_pc, attempt,
                   status, fetchVars, upVars, wfArgs, document_key, wf_status, results,
                   wf_results_key, wf_result>>

\* results = self.get_analysis_results(job_id) (step 4); the succeeded job has
\* between one and MaxPages pages of results
WfFetchCall ==
    /\ UNCHANGED extVars
    /\ wf_pc = "fetch" /\ fetch_pc = "idle"
    /\ page_count' \in 1..MaxPages
    /\ token_of' = ProperTokens(page_count')
    /\ fetch_pc' = "call"
    /\ call_no' = 1
    /\ wf_pc' = "fetching"
    /\ UNCHANGED <<calls, backend_statuses, job_status, bucket, job_id, monVars, pages,
                   next_token, requests, fetch_result, first_call, upVars, wfArgs,
                   document_key, wf_status, results, wf_results_key, wf_result>>

WfFetchReturn ==
    /\ UNCHANGED extVars
    /\ wf_pc = "fetching" /\ fetch_pc = "returned"
    /\ results' = fetch_result
    /\ wf_pc' = "persist"
    /\ UNCHANGED <<calls, envVars, job_status, bucket, job_id, monVars, fetchVars, upVars,
                   wfArgs, document_key, wf_status, wf_results_key, wf_result>>

WfFetchRaise ==
    /\ UNCHANGED extVars
    /\ wf_pc = "fetching" /\ fetch_pc \in Exceptions
    /\ wf_pc' = fetch_pc
    /\ UNCHANGED <<calls, envVars, job_status, bucket, job_id, monVars, fetchVars, upVars,
                   wfArgs, document_key, wf_status, results, wf_results_key, wf_result>>

\* results_key = self.upload_results_to_s3(results, document_key) (step 5)
WfPersistCall ==
    /\ UNCHANGED extVars
    /\ wf_pc = "persist" /\ up_pc = "idle"
    /\ original_s3_key' = document_key
    /\ up_pc' = "call"
    /\ wf_pc' = "persisting"
    /\ UNCHANGED <<calls, envVars, job_status, bucket, job_id, monVars, fetchVars,
                   results_key, wfArgs, document_key, wf_status, results, wf_results_key,
                   wf_result>>

WfPersistReturn ==
    /\ UNCHANGED extVars
    /\ wf_pc = "persisting" /\ up_pc = "returned"
    /\ wf_results_key' = results_key
    /\ wf_result' = WorkflowResult(job_id, wf_status, document_key, results_key)
    /\ wf_pc' = "returned"
    /\ UNCHANGED <<calls, envVars, job_status, bucket, job_id, monVars, fetchVars, upVars,
                   wfArgs, document_key, wf_status, results>>

\* a workflow that swallows the failure of the results upload
WfPersistRaiseSwallowed ==
    /\ UNCHANGED extVars
    /\ wf_pc = "persisting" /\ up_pc \in Exceptions
    /\ wf_result' = [job_id |-> job_id, status |-> wf_status,
                     document_key |-> document_key, results_key |-> NoneKey]
    /\ wf_pc' = "returned"
    /\ UNCHANGED <<calls, envVars, job_status, bucket, job_id, monVars, fetchVars, upVars,
                   wfArgs, document_key, wf_status, results, wf_results_key>>

WfPersistRaise ==
    /\ UNCHANGED extVars
    /\ wf_pc = "persisting" /\ up_pc \in Exceptions
    /\ wf_pc' = up_pc
    /\ UNCHANGED <<calls, envVars, job_status, bucket, job_id, monVars, fetchVars, upVars,
                   wfArgs, document_key, wf_status, results, wf_results_key, wf_result>>

\* ---------------------------------------------------- initial conditions
\* ===================================================== narrative grouping
\* text is a sequence of tokens, " " being white space; str.strip() takes the
\* white space off both ends
RECURSIVE Strip(_)
Strip(text) ==
    IF text = <<>> THEN <<>>
    ELSE IF Head(text) = " " THEN Strip(Tail(text))
    ELSE IF text[Len(text)] = " " THEN Strip(SubSeq(text, 1, Len(text) - 1))
    ELSE text

\* sep.join(texts)
RECURSIVE Join(_, _)
Join(sep, texts) ==
    IF texts = <<>> THEN <<>>
    ELSE IF Len(texts) = 1 THEN texts[1]
    ELSE texts[1] \o <<sep>> \o Join(sep, Tail(texts))

\* page numbers listed from the greatest to the least
RECURSIVE SortedDescending(_)
SortedDescending(numbers) ==
    IF numbers = {} THEN <<>>
    ELSE LET greatest == CHOOSE n \in numbers : \A m \in numbers : m <= n
         IN  <<greatest>> \o SortedDescending(numbers \ {greatest})

\* sorted(list(current_page_numbers))
RECURSIVE Sorted(_)
Sorted(numbers) ==
    IF numbers = {} THEN <<>>
    ELSE LET least == CHOOSE n \in numbers : \A m \in numbers : n <= m
         IN  <<least>> \o Sorted(numbers \ {least})

\* a chunk: its text, metadata.get("page_number") ({} for None) and the
\* elements it was made of
Chunk(text, page_number, orig_elements) ==
    [text |-> text, page_number |-> page_number, orig_elements |-> orig_elements]

Element(category, text) == [category |-> category, text |-> text]

\* the titles of a chunk, those of white space as well
ChunkTitlesWithBlank(chunk) ==
    LET titled == SelectSeq(chunk.orig_elements, LAMBDA elem : elem.category = "Title")
    IN  [i \in 1..Len(titled) |-> Strip(titled[i].text)]

\* [elem.text.strip() for elem in orig_elements
\*  if elem.category == "Title" and elem.text.strip()]
ChunkTitles(chunk) ==
    LET titled == SelectSeq(chunk.orig_elements,
                            LAMBDA elem : elem.category = "Title" /\ Strip(elem.text) # <<>>)
    IN  [i \in 1..Len(titled) |-> Strip(titled[i].text)]

\* a grouper that joins the texts of a group in reverse
SaveReversed(groups, titles, content, page_numbers) ==
    IF titles # <<>> \/ content # <<>>
    THEN LET title == IF titles # <<>> THEN Join(" | ", titles) ELSE <<"Untitled">>
             text == Strip(Join(" ", [i \in 1..Len(content) |-> content[Len(content) + 1 - i]]))
         IN  IF title # <<>> \/ text # <<>>
             THEN Append(groups, [title |-> title, content |-> text,
                                  page_numbers |-> Sorted(page_numbers)])
             ELSE groups
    ELSE groups

\* a save that does not look whether anything was accumulated
SaveEvenWhenEmpty(groups, titles, content, page_numbers) ==
    Append(groups, [title |-> IF titles # <<>> THEN Join(" | ", titles) ELSE <<"Untitled">>,
                    content |-> Strip(Join(" ", content)),
                    page_numbers |-> Sorted(page_numbers)])

\* a save that leaves the text of the title-bearing chunk out of the content
SaveWithoutTitleText(groups, titles, content, page_numbers) ==
    IF titles # <<>> \/ content # <<>>
    THEN LET title == IF titles # <<>> THEN Join(" | ", titles) ELSE <<"Untitled">>
             text == Strip(Join(" ", IF titles # <<>> THEN Tail(content) ELSE content))
         IN  IF title # <<>> \/ text # <<>>
             THEN Append(groups, [title |-> title, content |-> text,
                                  page_numbers |-> Sorted(page_numbers)])
             ELSE groups
    ELSE groups

\* save_current_group: the result with the group in progress appended, if
\* there is one
SaveCurrentGroup(groups, titles, content, page_numbers) ==
    IF titles # <<>> \/ content # <<>>
    THEN LET title == IF titles # <<>> THEN Join(" | ", titles) ELSE <<"Untitled">>
             text == Strip(Join(" ", content))
         IN  IF title # <<>> \/ text # <<>>
             THEN Append(groups, [title |-> title, content |-> text,
                                  page_numbers |-> Sorted(page_numbers)])
             ELSE groups
    ELSE groups

\* a loop that records the page of a chunk before it looks at its text
GroupChunkRecordingBlankPages ==
    /\ grp_pc = "loop" /\ chunk_no < Len(chunks)
    /\ LET chunk == chunks[chunk_no + 1]
           chunk_text == Strip(chunk.text)
           page_numbers == current_page_numbers \cup chunk.page_number
           chunk_titles == ChunkTitles(chunk)
       IN  /\ chunk_no' = chunk_no + 1
           /\ IF chunk_text = <<>>
              THEN /\ current_page_numbers' = page_numbers
                   /\ UNCHANGED <<result, current_titles, current_content>>
              ELSE IF chunk_titles # <<>>
              THEN IF current_content # <<>>
                   THEN /\ result' = SaveCurrentGroup(result, current_titles, current_content,
                                                      page_numbers)
                        /\ current_titles' = chunk_titles
                        /\ current_content' = <<chunk_text>>
                        /\ current_page_numbers' = chunk.page_number
                   ELSE /\ current_titles' = current_titles \o chunk_titles
                        /\ current_content' = <<chunk_text>>
                        /\ current_page_numbers' = page_numbers
                        /\ UNCHANGED result
              ELSE /\ current_content' = Append(current_content, chunk_text)
                   /\ current_page_numbers' = page_numbers
                   /\ UNCHANGED <<result, current_titles>>
    /\ UNCHANGED <<chunks, grp_pc, svcVars, sqsVars, bucket, apiVars, resVars>>

\* one turn of the loop over the chunks
GroupChunk ==
    /\ grp_pc = "loop" /\ chunk_no < Len(chunks)
    /\ LET chunk == chunks[chunk_no + 1]
           chunk_text == Strip(chunk.text)
           page_numbers == current_page_numbers \cup chunk.page_number
           chunk_titles == ChunkTitles(chunk)
       IN  /\ chunk_no' = chunk_no + 1
           /\ IF chunk_text = <<>>
              THEN UNCHANGED <<result, current_titles, current_content, current_page_numbers>>
              ELSE IF chunk_titles # <<>>
              THEN IF current_content # <<>>
                   THEN /\ result' = SaveCurrentGroup(result, current_titles, current_content,
                                                      page_numbers)
                        /\ current_titles' = chunk_titles
                        /\ current_content' = <<chunk_text>>
                        /\ current_page_numbers' = chunk.page_number
                   ELSE /\ current_titles' = current_titles \o chunk_titles
                        /\ current_content' = <<chunk_text>>
                        /\ current_page_numbers' = page_numbers
                        /\ UNCHANGED result
              ELSE /\ current_content' = Append(current_content, chunk_text)
                   /\ current_page_numbers' = page_numbers
                   /\ UNCHANGED <<result, current_titles>>
    /\ UNCHANGED <<chunks, grp_pc, svcVars, sqsVars, bucket, apiVars, resVars>>

\* a grouper that returns without saving the group in progress
GroupReturnWithoutFlush ==
    /\ grp_pc = "loop" /\ chunk_no = Len(chunks)
    /\ grp_pc' = "returned"
    /\ UNCHANGED <<chunks, chunk_no, result, current_titles, current_content,
                   current_page_numbers, svcVars, sqsVars, bucket, apiVars, resVars>>

\* the loop is over: the final group is saved and the result returned
GroupReturn ==
    /\ grp_pc = "loop" /\ chunk_no = Len(chunks)
    /\ result' = SaveCurrentGroup(result, current_titles, current_content, current_page_numbers)
    /\ grp_pc' = "returned"
    /\ UNCHANGED <<chunks, chunk_no, current_titles, current_content, current_page_numbers,
                   svcVars, sqsVars, bucket, apiVars, resVars>>

\* the chunks the grouper is tried on
Texts == {<<" ">>, <<" ", "a", " ">>, <<"b", " ", "c">>}

PageNumbers == {{}, {1}, {2}}

NoTitle == <<Element("NarrativeText", <<"n">>)>>

OneTitle == <<Element("Title", <<"T">>)>>

BlankTitle == <<Element("Title", <<" ">>), Element("NarrativeText", <<"n">>)>>

TwoTitles == <<Element("Title", <<" ", "T">>), Element("NarrativeText", <<"n">>),
               Element("Title", <<"U", " ">>)>>

ChunkSet ==
    {Chunk(text, page_number, orig_elements) :
        text \in Texts, page_number \in PageNumbers, orig_elements \in {NoTitle, OneTitle}}
    \cup {Chunk(<<"b", " ", "c">>, {2}, TwoTitles), Chunk(<<" ", "a", " ">>, {1}, BlankTitle)}

ChunkSeqs == UNION {[1..n -> ChunkSet] : n \in 0..MaxChunks}

ExampleChunks ==
    << Chunk(<<"Intro">>, {1}, <<Element("Title", <<"Intro">>)>>),
       Chunk(<<"body", " ", "text">>, {1}, <<Element("NarrativeText", <<"body", " ", "text">>)>>),
       Chunk(<<"Methods">>, {2}, <<Element("Title", <<"Methods">>)>>),
       Chunk(<<"more", " ", "text">>, {2}, <<Element("NarrativeText", <<"more", " ", "text">>)>>) >>

\* ============================================================== the API
\* file names, as token sequences; str.lower() and str.endswith()
Lower(text) == [i \in 1..Len(text) |-> IF text[i] = "PDF" THEN "pdf" ELSE text[i]]

EndsWith(text, suffix) ==
    /\ Len(suffix) <= Len(text)
    /\ SubSeq(text, Len(text) - Len(suffix) + 1, Len(text)) = suffix

Filenames == {<<"a", ".", "pdf">>, <<"a", ".", "PDF">>, <<"a", ".", "txt">>, <<"pdf">>}

\* file.filename.lower().endswith('.pdf')
IsPdf(name) == EndsWith(Lower(name), <<".", "pdf">>)

Uploads == 1..MaxUploads

\* uuid.uuid4(): a fresh value for each request
Uuid4(r) == "u" \o ToString(r)

\* f"uploads/{uuid.uuid4()}/{file.filename}"
UploadKeyOf(r, name) == <<"uploads", "/", Uuid4(r), "/">> \o name

\* the JobId the analysis backend gives to its n-th job
JobIdOf(n) == "job-" \o ToString(n)

BackgroundJob == "background_job"

NoJob == None

NoResponse == [code |-> 0, body |-> NoneDict]

\* a validation raised inside the try block, and so answered with a 500
ValidationErrorCaught == [code |-> 500, body |-> NoneDict]

\* HTTPException(status_code=400, detail="Only PDF files are supported")
ValidationError == [code |-> 400, body |-> NoneDict]

\* HTTPException(status_code=500, ...)
InternalError == [code |-> 500, body |-> NoneDict]

\* DocumentResponse(job_id="background_job", status="SUBMITTED", ...)
DocumentResponse(key) ==
    [code |-> 200,
     body |-> [job_id |-> BackgroundJob, status |-> "SUBMITTED", document_key |-> key,
               results_key |-> NoneKey]]

NoRequest == [pc |-> "idle", endpoint |-> None, filename |-> NoneKey, s3_key |-> NoneKey,
              response |-> NoResponse]

NoTask == [pc |-> "none", job_id |-> NoJob, status |-> None, elapsed_time |-> 0,
           polls |-> 0, last |-> Event(None, None), exc |-> None, logged |-> FALSE,
           wf_result |-> NoneDict]

\* the requests arrive one after the other
Arrives(r) == request[r].pc = "idle" /\ (r > 1 => request[r - 1].pc # "idle")

\* POST /documents/process: the handler, to its response
ProcessDocument(r) ==
    /\ Arrives(r)
    /\ \E name \in Filenames :
          \/ /\ ~IsPdf(name)
             /\ request' = [request EXCEPT ![r] =
                    [pc |-> "responded", endpoint |-> "process_document", filename |-> name,
                     s3_key |-> NoneKey, response |-> ValidationError]]
             /\ UNCHANGED task
          \/ /\ IsPdf(name)
             /\ request' = [request EXCEPT ![r] =
                    [pc |-> "responded", endpoint |-> "process_document", filename |-> name,
                     s3_key |-> NoneKey, response |-> InternalError]]
             /\ UNCHANGED task
          \/ /\ IsPdf(name)
             /\ request' = [request EXCEPT ![r] =
                    [pc |-> "responded", endpoint |-> "process_document", filename |-> name,
                     s3_key |-> UploadKeyOf(r, name),
                     response |-> DocumentResponse(UploadKeyOf(r, name))]]
             /\ task' = [task EXCEPT ![r].pc = "scheduled"]
    /\ UNCHANGED <<svcVars, sqsVars, bucket, jobs, grpVars, resVars>>

\* the exception a step of process_document_fileobj raised: it is logged and
\* raised again, and process_document_background, which has no handler, lets
\* it through
Raised(t, op, error) ==
    [task[t] EXCEPT !.pc = "escaped", !.exc = error, !.logged = TRUE,
                    !.last = Event(op, error)]

\* the background task runs, after the response was sent:
\* process_document_background calls process_document_fileobj, whose step 1 is
\* upload_pdf_fileobj_to_s3
TaskUpload(t) ==
    /\ task[t].pc = "scheduled"
    /\ \/ /\ bucket' = bucket \cup {request[t].s3_key}
          /\ task' = [task EXCEPT ![t].pc = "start",
                                  ![t].last = Event("upload_fileobj", "ok")]
       \/ /\ task' = [task EXCEPT ![t] = Raised(t, "upload_fileobj", "ClientError")]
          /\ UNCHANGED bucket
    /\ UNCHANGED <<svcVars, sqsVars, request, jobs, grpVars, resVars>>

\* a service that keeps the job id of its first job for every workflow
TaskStartSharedJobId(t) ==
    /\ task[t].pc = "start"
    /\ jobs' = Append(jobs, request[t].s3_key)
    /\ task' = [task EXCEPT ![t].pc = "monitor", ![t].job_id = JobIdOf(1),
                            ![t].last = Event("start_document_analysis", "ok")]
    /\ UNCHANGED <<svcVars, sqsVars, bucket, request, grpVars, resVars>>

\* step 2: start_document_analysis; the backend gives the job a new JobId
TaskStart(t) ==
    /\ task[t].pc = "start"
    /\ \/ /\ jobs' = Append(jobs, request[t].s3_key)
          /\ task' = [task EXCEPT ![t].pc = "monitor", ![t].job_id = JobIdOf(Len(jobs) + 1),
                                  ![t].last = Event("start_document_analysis", "ok")]
       \/ /\ task' = [task EXCEPT ![t] = Raised(t, "start_document_analysis", "ClientError")]
          /\ UNCHANGED jobs
    /\ UNCHANGED <<svcVars, sqsVars, bucket, request, grpVars, resVars>>

\* what a status check leaves in a workflow
Polled(w, key, out) ==
    IF out = "ClientError"
    THEN [w EXCEPT !.pc = "escaped", !.exc = out, !.logged = TRUE,
                   !.polls = @ + 1, !.last = Event("check_job_status", out)]
    ELSE [w EXCEPT !.status = out, !.polls = @ + 1, !.last = Event("check_job_status", out),
                   !.pc = IF ~IsTerminal(out) THEN "sleep"
                          ELSE IF ReturnsEarly(out) THEN "done" ELSE "fetch",
                   !.wf_result = IF IsTerminal(out) /\ ReturnsEarly(out)
                                 THEN [job_id |-> w.job_id, status |-> out,
                                       document_key |-> key, results_key |-> NoneKey]
                                 ELSE NoneDict]

\* a service that keeps the status read last in one place for all workflows
TaskPollSharedStatus(t) ==
    /\ task[t].pc = "monitor"
    /\ WithinTime(task[t].elapsed_time, DefaultMaxTime)
    /\ task[t].polls < MaxPolls
    /\ \E out \in backend_statuses :
          task' = [u \in Uploads |->
                      IF u = t THEN Polled(task[t], request[t].s3_key, out)
                      ELSE [task[u] EXCEPT !.status = IF @ = None THEN @ ELSE out]]
    /\ UNCHANGED <<svcVars, sqsVars, bucket, request, jobs, grpVars, resVars>>

\* step 3, monitor_job_progress: one status check of the workflow's job
TaskPoll(t) ==
    /\ task[t].pc = "monitor"
    /\ WithinTime(task[t].elapsed_time, DefaultMaxTime)
    /\ task[t].polls < MaxPolls
    /\ \E out \in backend_statuses \cup {"ClientError"} :
          task' = [task EXCEPT ![t] = Polled(task[t], request[t].s3_key, out)]
    /\ UNCHANGED <<svcVars, sqsVars, bucket, request, jobs, grpVars, resVars>>

\* time.sleep(polling_interval): the thread runs again when the interval is
\* over, or later
TaskSleep(t) ==
    /\ task[t].pc = "sleep"
    /\ \E late \in {0, DefaultMaxTime} :
          task' = [task EXCEPT ![t].pc = "monitor",
                               ![t].elapsed_time = @ + DefaultPollingInterval + late]
    /\ UNCHANGED <<svcVars, sqsVars, bucket, request, jobs, grpVars, resVars>>

\* the loop of monitor_job_progress is over: TimeoutError
TaskTimeout(t) ==
    /\ task[t].pc = "monitor"
    /\ ~WithinTime(task[t].elapsed_time, DefaultMaxTime)
    /\ task' = [task EXCEPT ![t].pc = "escaped", ![t].exc = "TimeoutError", ![t].logged = TRUE]
    /\ UNCHANGED <<svcVars, sqsVars, bucket, request, jobs, grpVars, resVars>>

\* step 4: get_analysis_results
TaskFetch(t) ==
    /\ task[t].pc = "fetch"
    /\ \/ task' = [task EXCEPT ![t].pc = "persist",
                               ![t].last = Event("get_document_analysis", "ok")]
       \/ task' = [task EXCEPT ![t] = Raised(t, "get_document_analysis", "ClientError")]
    /\ UNCHANGED <<svcVars, sqsVars, bucket, request, jobs, grpVars, resVars>>

\* step 5: upload_results_to_s3, and the return of process_document_fileobj
\* and of process_document_background
TaskPersist(t) ==
    /\ task[t].pc = "persist"
    /\ \/ /\ bucket' = bucket \cup {ResultsKey(request[t].s3_key)}
          /\ task' = [task EXCEPT ![t].pc = "done",
                                  ![t].last = Event("upload_json", "ok"),
                                  ![t].wf_result =
                                      [job_id |-> task[t].job_id, status |-> task[t].status,
                                       document_key |-> request[t].s3_key,
                                       results_key |-> ResultsKey(request[t].s3_key)]]
       \/ /\ task' = [task EXCEPT ![t] = Raised(t, "upload_json", "ClientError")]
          /\ UNCHANGED bucket
    /\ UNCHANGED <<svcVars, sqsVars, request, jobs, grpVars, resVars>>

\* DocumentService.upload_document(file, background_tasks), called by the
\* route POST /document: how it may end for a file of this name
UploadDocumentOutcomes(name) ==
    IF ~IsPdf(name) THEN {"ValueError"} ELSE {"ok", "Exception"}

\* the key it stores the bytes at
DocumentsKeyOf(r, name) == <<"documents", "/", Uuid4(r), "/">> \o name

\* POST /document: the handler, to its response
UploadDocument(r) ==
    /\ Arrives(r)
    /\ \E name \in Filenames : \E outcome \in UploadDocumentOutcomes(name) :
          /\ request' = [request EXCEPT ![r] =
                 [pc |-> "responded", endpoint |-> "upload_document", filename |-> name,
                  s3_key |-> IF outcome = "ok" THEN DocumentsKeyOf(r, name) ELSE NoneKey,
                  response |-> CASE outcome = "ValueError" -> ValidationError
                                 [] outcome = "Exception" -> InternalError
                                 [] OTHER -> [code |-> 200,
                                              body |-> [document_key |-> DocumentsKeyOf(r, name)]]]]
          /\ bucket' = IF outcome = "ok" THEN bucket \cup {DocumentsKeyOf(r, name)} ELSE bucket
    /\ UNCHANGED <<svcVars, sqsVars, task, jobs, grpVars, resVars>>

\* ------------------------------------------- GET /documents/{job_id}/results
\* results that are fetched for every job that has ended
ResultsReadyWhenTerminal(st) == IsTerminal(st)

\* if status != "SUCCEEDED": the job is not completed yet
ResultsReady(st) == st = "SUCCEEDED"

NotCompleted(job, st) ==
    [code |-> 200,
     body |-> [job_id |-> job, status |-> st, document_metadata |-> NoneDict,
               pages |-> <<>>, has_pages |-> FALSE, message |-> "Job is not completed yet"]]

Completed(job, st, analysis) ==
    [code |-> 200,
     body |-> [job_id |-> job, status |-> st,
               document_metadata |-> analysis.DocumentMetadata,
               pages |-> analysis.Pages, has_pages |-> TRUE,
               message |-> "Document analysis completed successfully"]]

\* the status check of get_document_results, and its answer for a job that
\* has not succeeded
ResultsCheckStatus ==
    /\ res_pc = "call"
    /\ \E out \in backend_statuses \cup {"ClientError"} :
          /\ CheckJobStatus(out)
          /\ IF out = "ClientError"
             THEN /\ res_pc' = "responded"
                  /\ res_response' = InternalError
                  /\ UNCHANGED res_status
             ELSE /\ res_status' = out
                  /\ IF ResultsReady(out)
                     THEN /\ res_pc' = "fetch"
                          /\ UNCHANGED res_response
                     ELSE /\ res_pc' = "responded"
                          /\ res_response' = NotCompleted(job_id, out)
    /\ UNCHANGED <<envVars, bucket, job_id, monVars, fetchVars, upVars, wfVars,
                   grpVars, apiVars, sqsVars>>

\* document_service.get_analysis_results(job_id)
ResultsFetchCall ==
    /\ res_pc = "fetch" /\ fetch_pc = "idle"
    /\ fetch_pc' = "call"
    /\ res_pc' = "fetching"
    /\ UNCHANGED <<calls, envVars, job_status, bucket, job_id, monVars, pages, next_token,
                   requests, fetch_result, call_no, first_call, upVars, wfVars,
                   grpVars, apiVars, sqsVars, res_status, res_response>>

\* the results are there: they are returned
ResultsFetchReturn ==
    /\ res_pc = "fetching" /\ fetch_pc = "returned"
    /\ res_response' = Completed(job_id, res_status, fetch_result)
    /\ res_pc' = "responded"
    /\ UNCHANGED <<svcVars, sqsVars, bucket, grpVars, apiVars, res_status>>

\* the fetch has raised: 500
ResultsFetchRaise ==
    /\ res_pc = "fetching" /\ fetch_pc \in Exceptions
    /\ res_response' = InternalError
    /\ res_pc' = "responded"
    /\ UNCHANGED <<svcVars, sqsVars, bucket, grpVars, apiVars, res_status>>

\* ===================================================== the SQS service
\* the messages the queue may hold, by id; a message as receive_message
\* returns it
MessageIds == 1..MaxMessages

BodyOf(id) == IF id % 2 = 1 THEN <<"{", "jobId", "}">> ELSE <<"hello">>

Message(id) == [MessageId |-> id, ReceiptHandle |-> "rh-" \o ToString(id), Body |-> BodyOf(id)]

\* json.loads(message['Body']), or the body itself when it is not JSON
IsJson(text) == Len(text) >= 2 /\ Head(text) = "{" /\ text[Len(text)] = "}"

ParseBody(text) ==
    IF IsJson(text)
    THEN [dict |-> TRUE, value |-> SubSeq(text, 2, Len(text) - 1)]
    ELSE [dict |-> FALSE, value |-> text]

\* what one receive may return: up to n of the messages in the queue, each
\* once, in any order
Received(ids, n) ==
    {ms \in UNION {[1..k -> {Message(id) : id \in ids}] : k \in 0..n} :
        \A i, j \in 1..Len(ms) : ms[i] = ms[j] => i = j}

SqsEvent(op, id, out) == [op |-> op, message |-> id, out |-> out]

\* messages = self.receive_messages(max_messages, wait_time), outside any
\* try: a ClientError of the receive leaves process_messages
ProcessMessagesReceive ==
    /\ sqs_pc = "call"
    /\ \/ /\ messages' \in Received(queue, max_messages)
          /\ sqs_calls' = Append(sqs_calls, SqsEvent("receive_message", 0, "ok"))
          /\ sqs_pc' = "loop"
       \/ /\ messages' = messages
          /\ sqs_calls' = Append(sqs_calls, SqsEvent("receive_message", 0, "ClientError"))
          /\ sqs_pc' = "ClientError"
    /\ processed_count' = 0 /\ message_no' = 0
    /\ UNCHANGED <<queue, max_messages, sqs_result, svcVars, bucket, grpVars, apiVars, resVars>>

\* a loop that deletes the message also when its handler has raised
ProcessMessagesHandleDeletingAnyway ==
    /\ sqs_pc = "loop" /\ message_no < Len(messages)
    /\ LET message == messages[message_no + 1]
       IN  \E out \in {"ok", "Exception"} :
              sqs_calls' = Append(sqs_calls,
                                  [op |-> "handler", message |-> message.MessageId, out |-> out,
                                   body |-> ParseBody(message.Body)])
    /\ sqs_pc' = "delete"
    /\ UNCHANGED <<queue, max_messages, messages, message_no, processed_count, sqs_result,
                   svcVars, bucket, grpVars, apiVars, resVars>>

\* for message in messages: the body is parsed and handler_function(body,
\* message) is called; an exception it raises is logged and the loop goes on
\* to the next message
ProcessMessagesHandle ==
    /\ sqs_pc = "loop" /\ message_no < Len(messages)
    /\ LET message == messages[message_no + 1]
       IN  \E out \in {"ok", "Exception"} :
              /\ sqs_calls' = Append(sqs_calls,
                                     [op |-> "handler", message |-> message.MessageId, out |-> out,
                                      body |-> ParseBody(message.Body)])
              /\ IF out = "ok"
                 THEN sqs_pc' = "delete" /\ message_no' = message_no
                 ELSE sqs_pc' = "loop" /\ message_no' = message_no + 1
    /\ UNCHANGED <<queue, max_messages, messages, processed_count, sqs_result,
                   svcVars, bucket, grpVars, apiVars, resVars>>

\* self.delete_message(message['ReceiptHandle']); processed_count += 1: a
\* ClientError of the delete is raised again by delete_message and caught by
\* the loop, which logs it and goes on
ProcessMessagesDelete ==
    /\ sqs_pc = "delete"
    /\ LET message == messages[message_no + 1]
       IN  \/ /\ queue' = queue \ {message.MessageId}
              /\ sqs_calls' = Append(sqs_calls, SqsEvent("delete_message", message.MessageId, "ok"))
              /\ processed_count' = processed_count + 1
           \/ /\ queue' = queue
              /\ sqs_calls' = Append(sqs_calls,
                                     SqsEvent("delete_message", message.MessageId, "ClientError"))
              /\ processed_count' = processed_count
    /\ message_no' = message_no + 1
    /\ sqs_pc' = "loop"
    /\ UNCHANGED <<max_messages, messages, sqs_result, svcVars, bucket, grpVars, apiVars, resVars>>

\* return processed_count
ProcessMessagesReturn ==
    /\ sqs_pc = "loop" /\ message_no = Len(messages)
    /\ sqs_result' = processed_count
    /\ sqs_pc' = "returned"
    /\ UNCHANGED <<queue, max_messages, messages, message_no, processed_count, sqs_calls,
                   svcVars, bucket, grpVars, apiVars, resVars>>

LogInit == calls = <<>> /\ bucket = {}

MonIdle ==
    /\ mon_fn = None /\ mon_pc = "idle"
    /\ polling_interval = 0 /\ max_time = 0 /\ delay = 0 /\ max_attempts = 0
    /\ elapsed_time = 0 /\ attempt = 0 /\ status = None

FetchIdle ==
    /\ fetch_pc = "idle" /\ pages = <<>> /\ next_token = NoToken /\ requests = <<>>
    /\ fetch_result = NoneDict /\ call_no = 0 /\ first_call = NoneDict

UpIdle == up_pc = "idle" /\ original_s3_key = NoneKey /\ results_key = NoneKey

WfIdle ==
    /\ wf_fn = None /\ wf_pc = "idle"
    /\ pdf_path = NoneKey /\ filename = NoneKey /\ s3_key = NoneKey /\ file_exists = TRUE
    /\ document_key = NoneKey /\ wf_status = None /\ results = NoneDict
    /\ wf_results_key = NoneKey /\ wf_result = NoneDict

GrpIdle ==
    /\ chunks = <<>> /\ chunk_no = 0 /\ grp_pc = "idle" /\ result = <<>>
    /\ current_titles = <<>> /\ current_content = <<>> /\ current_page_numbers = {}

ApiIdle ==
    /\ request = [r \in Uploads |-> NoRequest]
    /\ task = [t \in Uploads |-> NoTask]
    /\ jobs = <<>>

SqsIdle ==
    /\ queue = {} /\ max_messages = 0 /\ sqs_pc = "idle" /\ messages = <<>>
    /\ message_no = 0 /\ processed_count = 0 /\ sqs_calls = <<>> /\ sqs_result = 0

ResIdle == res_pc = "idle" /\ res_status = None /\ res_response = NoResponse

OnePage == page_count = 1 /\ token_of = <<NoToken>>

\* ----------------------------------------- a caller runs one monitor
InitMonitor ==
    /\ SqsIdle /\ GrpIdle /\ ApiIdle /\ ResIdle
    /\ LogInit /\ FetchIdle /\ UpIdle /\ WfIdle /\ OnePage
    /\ job_id = "job-1"
    /\ backend_statuses = Statuses
    /\ job_status = "SUBMITTED"
    /\ mon_fn \in {"monitor_job_progress", "wait_for_job_completion"}
    /\ mon_pc = "call"
    /\ polling_interval \in 1..MaxInterval
    /\ max_time \in 0..MaxTime
    /\ delay \in 1..MaxInterval
    /\ max_attempts \in 0..MaxAttempts
    /\ elapsed_time = 0
    /\ attempt = 0
    /\ status = None

NextMonitor ==
    \/ MonitorBegin \/ MonitorPoll \/ MonitorSleep \/ MonitorTimeout
    \/ WaitBegin \/ WaitPoll \/ WaitSleep \/ WaitTimeout

SpecMonitor == InitMonitor /\ [][NextMonitor]_vars

\* the monitor is a sequential function that the interpreter keeps running:
\* while it has a step to take, it takes one
SpecMonitorFair == InitMonitor /\ [][NextMonitor]_vars /\ WF_vars(NextMonitor)

\* ------------------------- a caller fetches the results of a job twice
InitFetch ==
    /\ SqsIdle /\ GrpIdle /\ ApiIdle /\ ResIdle
    /\ LogInit /\ MonIdle /\ FetchIdle /\ UpIdle /\ WfIdle
    /\ job_id = "job-1"
    /\ backend_statuses = Statuses
    /\ job_status \in Statuses
    /\ page_count \in 1..MaxPages
    /\ token_of \in TokenMaps(page_count)

NextFetch ==
    \/ GetAnalysisResults \/ GetAnalysisResultsAgain
    \/ GetDocumentAnalysisBegin \/ GetDocumentAnalysisRequest \/ GetDocumentAnalysisError

SpecFetch == InitFetch /\ [][NextFetch]_vars

\* ------------------- a caller uploads the results for one document key
InitKey ==
    /\ SqsIdle /\ GrpIdle /\ ApiIdle /\ ResIdle
    /\ LogInit /\ MonIdle /\ FetchIdle /\ WfIdle /\ OnePage
    /\ job_id = "job-1"
    /\ backend_statuses = Statuses
    /\ job_status = "SUCCEEDED"
    /\ up_pc = "call" /\ original_s3_key \in Keys \cup {ExampleKey} /\ results_key = NoneKey

NextKey == UploadResultsToS3

SpecKey == InitKey /\ [][NextKey]_vars

\* ======================================================== the job monitor
\* the status checks made so far, and the sleeps
Polls == SelectSeq(calls, LAMBDA e : e.op = "check_job_status")

Sleeps == SelectSeq(calls, LAMBDA e : e.op = "sleep")

PollOuts == LET polls == Polls IN [i \in 1..Len(polls) |-> polls[i].out]

\* C1: a monitor returns the first terminal status the status checks report,
\* directly after the check that reported it: when it has returned, the last
\* check is the only one with a terminal status and its status is the value
\* returned; and once a check has reported a terminal status the monitor has
\* returned, so that no check follows it.
C1_ReturnsFirstTerminal ==
    LET outs == PollOuts
        k == Len(outs)
    IN  /\ mon_pc = "returned" =>
              /\ k >= 1
              /\ outs[k] \in Terminal
              /\ status = outs[k]
              /\ \A i \in 1..(k - 1) : outs[i] \in NonTerminal
        /\ \A i \in 1..k : outs[i] \in Terminal => mon_pc = "returned" /\ i = k
        /\ (k >= 3 /\ SubSeq(outs, 1, 3) = <<"IN_PROGRESS", "IN_PROGRESS", "SUCCEEDED">>)
              => mon_pc = "returned" /\ status = "SUCCEEDED" /\ k = 3

\* IN_PROGRESS, IN_PROGRESS, SUCCEEDED: monitor_job_progress has returned
\* SUCCEEDED after three checks
C1_Witness ==
    /\ mon_fn = "monitor_job_progress" /\ mon_pc = "returned"
    /\ PollOuts = <<"IN_PROGRESS", "IN_PROGRESS", "SUCCEEDED">>
    /\ status = "SUCCEEDED"

\* C2: a monitor that has raised TimeoutError has seen non-terminal statuses
\* only and has slept after each check, so that no check follows the last sleep;
\* wait_for_job_completion has then made exactly max_attempts checks and
\* monitor_job_progress has read an elapsed time that is not below max_time.
\* A check is made only within the bound: monitor_job_progress checks only
\* while the elapsed time is below max_time, wait_for_job_completion never
\* more than max_attempts times.
C2_TimeoutAtBound ==
    LET outs == PollOuts
        k == Len(outs)
    IN  /\ mon_pc = "TimeoutError" =>
              /\ \A i \in 1..k : outs[i] \in NonTerminal
              /\ Len(Sleeps) = k
              /\ (calls # <<>> => calls[Len(calls)].op = "sleep")
              /\ mon_fn = "wait_for_job_completion" => k = max_attempts
              /\ mon_fn = "monitor_job_progress" => elapsed_time >= max_time
        /\ (mon_fn = "monitor_job_progress" /\ mon_pc \in {"sleep", "returned", "ClientError"})
              => elapsed_time < max_time
        /\ mon_fn = "wait_for_job_completion" => k <= max_attempts
        /\ (mon_fn = "wait_for_job_completion" /\ mon_pc = "loop" /\ k = max_attempts)
              => attempt = max_attempts

\* monitor_job_progress has timed out after at least two checks, with the
\* elapsed time beyond max_time
C2_Witness ==
    /\ mon_fn = "monitor_job_progress" /\ mon_pc = "TimeoutError"
    /\ Len(Polls) >= 2
    /\ elapsed_time > max_time

\* ================================================== the document workflow
Called(op) == \E i \in 1..Len(calls) : calls[i].op = op

CalledWith(op, out) == \E i \in 1..Len(calls) : calls[i] = Event(op, out)

Count(op) == Len(SelectSeq(calls, LAMBDA e : e.op = op))

\* a fetch of the results has been started, an upload of the results has
FetchEntered == fetch_pc # "idle" \/ requests # <<>> \/ Called("get_document_analysis")

PersistEntered == up_pc # "idle" \/ Called("upload_json")

\* the stage of the workflow a collaborator call belongs to
Stage(op) ==
    CASE op \in {"upload_file", "upload_fileobj"} -> 1
      [] op = "start_document_analysis" -> 2
      [] op \in {"check_job_status", "sleep"} -> 3
      [] op = "get_document_analysis" -> 4
      [] op = "upload_json" -> 5

\* C3: the workflow fetches and persists the results if and only if the
\* monitor returned SUCCEEDED.  A fetch or a results upload is begun only after
\* the monitor returned SUCCEEDED; a workflow that returned with SUCCEEDED has
\* fetched the results and stored them under the results key it returns; a
\* workflow that returned with any other status returned the terminal status
\* of the monitor with results_key None, without any fetch or results upload,
\* the document being the only object stored.
C3_FetchPersistIffSucceeded ==
    /\ (FetchEntered \/ PersistEntered) =>
          mon_pc = "returned" /\ status = "SUCCEEDED" /\ wf_status = "SUCCEEDED"
    /\ wf_pc = "returned" =>
          /\ wf_result.status = status /\ status \in Terminal
          /\ IF wf_result.status = "SUCCEEDED"
             THEN /\ CalledWith("get_document_analysis", "ok")
                  /\ CalledWith("upload_json", "ok")
                  /\ results = fetch_result /\ results # NoneDict
                  /\ wf_result.results_key = results_key /\ results_key # NoneKey
                  /\ bucket = {document_key, results_key}
             ELSE /\ wf_result.results_key = NoneKey
                  /\ ~FetchEntered /\ ~PersistEntered
                  /\ bucket = {document_key}

\* the workflow has returned PARTIAL_SUCCESS, without a results key
C3_Witness ==
    /\ wf_pc = "returned"
    /\ wf_result.status = "PARTIAL_SUCCESS"
    /\ wf_result.results_key = NoneKey
    /\ Len(Polls) >= 2

\* C4: the collaborator calls of a workflow follow the stage order store,
\* start analysis, poll loop, fetch results, persist results: the stages of the
\* calls never decrease; store, start, fetch and persist are each called at
\* most once; a call of a stage is made only after the stage before it has
\* succeeded (analysis is started after a successful store, a status is checked
\* only for a job id obtained from a successful start, results are fetched after
\* a check reported SUCCEEDED, results are persisted after they were fetched);
\* and a workflow that returned SUCCEEDED has gone through all five stages.
C4_StageOrder ==
    /\ \A i \in 1..(Len(calls) - 1) : Stage(calls[i].op) <= Stage(calls[i + 1].op)
    /\ Count("upload_file") + Count("upload_fileobj") <= 1
    /\ Count("start_document_analysis") <= 1
    /\ Count("get_document_analysis") <= 1
    /\ Count("upload_json") <= 1
    /\ (Called("start_document_analysis") \/ wf_pc = "start") =>
          /\ CalledWith("upload_file", "ok") \/ CalledWith("upload_fileobj", "ok")
          /\ document_key \in bucket
    /\ (Called("check_job_status") \/ mon_pc # "idle") =>
          CalledWith("start_document_analysis", "ok") /\ job_id # None
    /\ FetchEntered => CalledWith("check_job_status", "SUCCEEDED")
    /\ PersistEntered =>
          /\ CalledWith("get_document_analysis", "ok")
          /\ results = fetch_result /\ results # NoneDict
    /\ (wf_pc = "returned" /\ wf_result.status = "SUCCEEDED") =>
          \A st \in 1..5 : \E i \in 1..Len(calls) : Stage(calls[i].op) = st

\* a workflow has returned SUCCEEDED after a poll loop of several checks and
\* a fetch of several pages
C4_Witness ==
    /\ wf_pc = "returned" /\ wf_result.status = "SUCCEEDED"
    /\ Len(Polls) >= 3
    /\ Len(requests) >= 2

\* C5: a failed collaborator call ends the workflow with its exception: a
\* failed call is the last call of the run (no later stage, no retry), a
\* workflow that raised ClientError raised it after a failed call and a
\* workflow whose last call failed never returns a result; store, start
\* analysis, fetch results and persist results are each called at most once,
\* and a status check is followed by another one only if it reported a
\* non-terminal status.
C5_ErrorsPropagate ==
    /\ \A i \in 1..Len(calls) : calls[i].out = "ClientError" => i = Len(calls)
    /\ wf_pc = "ClientError" => calls # <<>> /\ calls[Len(calls)].out = "ClientError"
    /\ wf_pc \in Exceptions => wf_result = NoneDict
    /\ (calls # <<>> /\ calls[Len(calls)].out = "ClientError") =>
          /\ wf_pc \in {"ClientError", "monitoring", "fetching", "persisting"}
          /\ wf_result = NoneDict
          /\ wf_pc = "monitoring" => mon_pc = "ClientError"
          /\ wf_pc = "fetching" => fetch_pc = "ClientError"
          /\ wf_pc = "persisting" => up_pc = "ClientError"
    /\ Count("upload_file") + Count("upload_fileobj") <= 1
    /\ Count("start_document_analysis") <= 1
    /\ Count("get_document_analysis") <= 1 /\ call_no <= 1
    /\ Count("upload_json") <= 1
    /\ LET outs == PollOuts IN \A i \in 1..(Len(outs) - 1) : outs[i] \in NonTerminal

\* the workflow has raised the ClientError of a failed fetch of the results
C5_Witness ==
    /\ wf_pc = "ClientError"
    /\ calls[Len(calls)] = Event("get_document_analysis", "ClientError")
    /\ Len(requests) >= 2

\* C6: a timeout of the monitor ends the workflow with TimeoutError and never
\* with a job status: a workflow raises TimeoutError exactly for a monitor that
\* raised it, then no result record exists and nothing was fetched or
\* persisted; a workflow returns a result only for a monitor that returned,
\* and a result with status FAILED only if the last status check reported
\* FAILED.
C6_TimeoutIsDistinct ==
    /\ wf_pc = "TimeoutError" => mon_pc = "TimeoutError"
    /\ mon_pc = "TimeoutError" =>
          /\ wf_pc \in {"monitoring", "TimeoutError"}
          /\ wf_result = NoneDict /\ wf_status = None
          /\ ~FetchEntered /\ ~PersistEntered
          /\ bucket = {document_key}
    /\ wf_result # NoneDict =>
          /\ mon_pc = "returned"
          /\ wf_result.status = "FAILED" =>
                LET outs == PollOuts IN Len(outs) >= 1 /\ outs[Len(outs)] = "FAILED"

\* the workflow has raised the TimeoutError of the monitor
C6_Witness ==
    /\ wf_pc = "TimeoutError"
    /\ mon_pc = "TimeoutError"
    /\ Len(Polls) >= 2

\* ===================================================== fetching the results
\* C7: get_document_analysis follows the pagination tokens to the first
\* response without one and returns the raw responses in arrival order: when it
\* has returned after n requests, Pages holds n responses, the i-th being the
\* backend's answer to the i-th request, each but the last with a NextToken
\* and the last without; against a backend whose pages each carry the token of
\* the page after them, these are the backend's pages 1..page_count, each
\* once and in order.  While it runs, pages holds one response per request sent.
C7_PagesInArrivalOrder ==
    /\ fetch_pc = "request" =>
          /\ Len(pages) = Len(requests)
          /\ \A i \in 1..Len(pages) : pages[i] = BackendResponse(requests[i])
          /\ \A i \in 1..Len(pages) : HasNextToken(pages[i])
    /\ fetch_pc = "returned" =>
          LET n == Len(requests)
              got == fetch_result.Pages
          IN  /\ n >= 1 /\ Len(got) = n
              /\ \A i \in 1..n : got[i] = BackendResponse(requests[i])
              /\ \A i \in 1..(n - 1) : got[i].NextToken.present
              /\ ~got[n].NextToken.present
              /\ token_of = ProperTokens(page_count) =>
                    n = page_count /\ \A i \in 1..n : got[i].Page = i

\* three pages have been fetched with three requests
C7_Witness ==
    /\ fetch_pc = "returned"
    /\ Len(requests) = 3
    /\ Len(fetch_result.Pages) = 3
    /\ \A i \in 1..3 : fetch_result.Pages[i].Page = i

\* C8 as the specification states it: a fetch for a job whose status is not
\* SUCCEEDED fails, so that no fetch returns a result for such a job.
C8_FailsUnlessSucceeded ==
    (fetch_pc \in {"returned", "ClientError"} /\ job_status # "SUCCEEDED")
        => fetch_pc = "ClientError"

\* C8, amended: get_document_analysis does not look at the job's status.  It
\* fails only when a backend request fails, and for a job of any status it
\* otherwise returns a result whose JobStatus is the JobStatus of the first
\* response, which is that status.
C8_ReturnsStatusOfFirstPage ==
    /\ fetch_pc = "returned" =>
          /\ fetch_result.JobStatus = fetch_result.Pages[1].JobStatus
          /\ fetch_result.JobStatus = job_status
          /\ fetch_result.JobId = job_id
    /\ fetch_pc = "ClientError" =>
          /\ calls[Len(calls)] = Event("get_document_analysis", "ClientError")
          /\ Len(requests) = Len(pages) + 1

\* a fetch for a job in progress has returned a result
C8_Witness ==
    /\ fetch_pc = "returned"
    /\ job_status = "IN_PROGRESS"
    /\ fetch_result.JobStatus = "IN_PROGRESS"

\* C9: a second fetch for the same job, against the same backend, sends the
\* requests of the first and returns the result of the first, with the same
\* Pages.
C9_FetchIsIdempotent ==
    (call_no = 2 /\ fetch_pc = "returned") =>
        /\ requests = first_call.requests
        /\ fetch_result.Pages = first_call.result.Pages
        /\ fetch_result = first_call.result

\* the results of a succeeded job with three pages have been fetched twice
C9_Witness ==
    /\ call_no = 2 /\ fetch_pc = "returned"
    /\ job_status = "SUCCEEDED"
    /\ Len(fetch_result.Pages) = 3

\* ========================================================= the results key
\* index of the last "/" of s, 0 when there is none
LastSep(s) ==
    IF \E i \in 1..Len(s) : s[i] = "/"
    THEN CHOOSE i \in 1..Len(s) : s[i] = "/" /\ \A j \in (i + 1)..Len(s) : s[j] # "/"
    ELSE 0

\* the parent path of an S3 key, its text up to and with the last "/", and
\* the name that follows it
KeyParent(key) == SubSeq(key, 1, LastSep(key))

KeyName(key) == SubSeq(key, LastSep(key) + 1, Len(key))

\* the file stem of a name: the name without its last extension
NameStem(name) ==
    LET i == LastDot(name)
    IN  IF 1 < i /\ i < Len(name) THEN SubSeq(name, 1, i - 1) ELSE name

\* a key of plain components: none is empty, "." or ".."
PlainKey(key) ==
    \A i \in 1..Len(SplitSep(key)) :
        SplitSep(key)[i] \notin {<<>>, <<".">>, <<".", ".">>}

\* C10: the results key lies in the parent path of the document key and is
\* named by the document's file stem followed by _results.json, for every
\* document key of plain components, with or without a directory component.
C10_ResultsKeyInSameParent ==
    (up_pc \in {"returned", "ClientError"} /\ PlainKey(original_s3_key)) =>
        /\ KeyParent(results_key) = KeyParent(original_s3_key)
        /\ KeyName(results_key) = NameStem(KeyName(original_s3_key)) \o <<"_results.json">>

\* ------------------------------- a caller runs the workflow for one document
\* process_document is called with a path and no key, process_document_fileobj
\* as the upload endpoint calls it, with the key uploads/<uuid>/<filename>
UploadKey == <<"uploads", "/", "u", "/", "a", ".", "pdf">>

InitWorkflow ==
    /\ SqsIdle /\ GrpIdle /\ ApiIdle /\ ResIdle
    /\ LogInit /\ MonIdle /\ FetchIdle /\ UpIdle /\ OnePage
    /\ job_id = None
    /\ backend_statuses = {"IN_PROGRESS"} \cup Terminal
    /\ job_status = None
    /\ wf_fn \in {"process_document", "process_document_fileobj"}
    /\ wf_pc = "upload"
    /\ IF wf_fn = "process_document"
       THEN /\ pdf_path = <<"tmp", "/", "a", ".", "pdf">>
            /\ filename = NoneKey
            /\ s3_key = NoneKey
            /\ file_exists \in BOOLEAN
       ELSE /\ pdf_path = NoneKey
            /\ filename = <<"a", ".", "pdf">>
            /\ s3_key = UploadKey
            /\ file_exists = TRUE
    /\ document_key = NoneKey /\ wf_status = None /\ results = NoneDict
    /\ wf_results_key = NoneKey /\ wf_result = NoneDict

NextWorkflow ==
    \/ UploadPdfToS3 \/ UploadPdfFileobjToS3 \/ StartDocumentAnalysis
    \/ WfMonitorCall \/ MonitorBegin \/ MonitorPoll \/ MonitorSleep \/ MonitorTimeout
    \/ WfMonitorReturn \/ WfMonitorRaise
    \/ WfFetchCall \/ GetDocumentAnalysisBegin \/ GetDocumentAnalysisRequest
    \/ GetDocumentAnalysisError \/ WfFetchReturn \/ WfFetchRaise
    \/ WfPersistCall \/ UploadResultsToS3 \/ WfPersistReturn \/ WfPersistRaise

SpecWorkflow == InitWorkflow /\ [][NextWorkflow]_vars

\* --------------------------------- the narrative grouper, on a chunk sequence
InitGroup ==
    /\ SqsIdle /\ LogInit /\ MonIdle /\ FetchIdle /\ UpIdle /\ WfIdle /\ OnePage /\ ApiIdle /\ ResIdle
    /\ job_id = None /\ backend_statuses = Statuses /\ job_status = None
    /\ chunks \in ChunkSeqs \cup {ExampleChunks}
    /\ chunk_no = 0 /\ grp_pc = "loop" /\ result = <<>>
    /\ current_titles = <<>> /\ current_content = <<>> /\ current_page_numbers = {}

NextGroup == GroupChunk \/ GroupReturn

SpecGroup == InitGroup /\ [][NextGroup]_vars

\* ------------------------------- uploads, and their background workflows
InitApi ==
    /\ SqsIdle /\ LogInit /\ MonIdle /\ FetchIdle /\ UpIdle /\ WfIdle /\ OnePage /\ GrpIdle /\ ResIdle
    /\ ApiIdle
    /\ job_id = None /\ backend_statuses = {"IN_PROGRESS"} \cup Terminal /\ job_status = None

NextApi ==
    \/ \E r \in Uploads : ProcessDocument(r) \/ UploadDocument(r)
    \/ \E t \in Uploads :
          \/ TaskUpload(t) \/ TaskStart(t)
          \/ TaskPoll(t) \/ TaskSleep(t) \/ TaskTimeout(t)
          \/ TaskFetch(t) \/ TaskPersist(t)

SpecApi == InitApi /\ [][NextApi]_vars

\* ----------------------------------- a client asks for the results of a job
InitResults ==
    /\ LogInit /\ MonIdle /\ FetchIdle /\ UpIdle /\ WfIdle /\ SqsIdle /\ GrpIdle /\ ApiIdle
    /\ job_id = "job-1"
    /\ backend_statuses = Statuses
    /\ job_status \in Statuses
    /\ page_count \in 1..MaxPages
    /\ token_of \in TokenMaps(page_count)
    /\ res_pc = "call" /\ res_status = None /\ res_response = NoResponse

NextResults ==
    \/ ResultsCheckStatus \/ ResultsFetchCall
    \/ GetDocumentAnalysisBegin \/ GetDocumentAnalysisRequest \/ GetDocumentAnalysisError
    \/ ResultsFetchReturn \/ ResultsFetchRaise

SpecResults == InitResults /\ [][NextResults]_vars

\* ------------------------------- a consumer processes one batch of messages
InitSqs ==
    /\ LogInit /\ MonIdle /\ FetchIdle /\ UpIdle /\ WfIdle /\ OnePage
    /\ GrpIdle /\ ApiIdle /\ ResIdle
    /\ job_id = None /\ backend_statuses = Statuses /\ job_status = None
    /\ queue \in {1..n : n \in 0..MaxMessages}
    /\ max_messages \in 1..MaxMessages
    /\ sqs_pc = "call" /\ messages = <<>> /\ message_no = 0 /\ processed_count = 0
    /\ sqs_calls = <<>> /\ sqs_result = 0

NextSqs ==
    \/ ProcessMessagesReceive \/ ProcessMessagesHandle \/ ProcessMessagesDelete
    \/ ProcessMessagesReturn

SpecSqs == InitSqs /\ [][NextSqs]_vars

\* ================================================================ the API
\* a file name with the extension pdf, in either case
HasPdfExtension(name) ==
    /\ Len(name) >= 2
    /\ name[Len(name) - 1] = "."
    /\ name[Len(name)] \in {"pdf", "PDF"}

\* the keys an upload of request r may store or analyse
KeysOf(r) ==
    {k \in bucket \cup {jobs[i] : i \in 1..Len(jobs)} : Len(k) >= 3 /\ k[3] = Uuid4(r)}

Answered(r) == request[r].pc = "responded"

Submitted(r) ==
    /\ Answered(r)
    /\ request[r].endpoint = "process_document"
    /\ request[r].response.code = 200

\* C11: an upload whose file name does not end in .pdf is answered with a 400,
\* never with a 500, and nothing was stored, analysed or scheduled for it: its
\* request has no storage key, no object and no job carries its uuid, and its
\* background task was never scheduled.
C11_NonPdfRejected ==
    \A r \in Uploads :
        Answered(r) /\ ~HasPdfExtension(request[r].filename) =>
            /\ request[r].response.code = 400
            /\ request[r].s3_key = NoneKey
            /\ KeysOf(r) = {}
            /\ task[r] = NoTask

\* a text file was rejected by each endpoint, after a PDF had been taken and
\* its workflow had stored the document
C11_Witness ==
    /\ Submitted(1) /\ request[1].s3_key \in bucket
    /\ Answered(2) /\ request[2].filename = <<"a", ".", "txt">>
    /\ request[2].endpoint = "process_document"
    /\ request[2].response.code = 400

\* C12: when the upload endpoint has answered SUBMITTED, the document is in the
\* object store and its analysis job has been started.
C12_StoredAndStartedAtResponse ==
    \A r \in Uploads :
        Submitted(r) /\ request[r].response.body.status = "SUBMITTED" =>
            /\ request[r].response.body.document_key \in bucket
            /\ \E i \in 1..Len(jobs) : jobs[i] = request[r].response.body.document_key

\* C13: the job id of a successful upload response is the id the backend gave
\* to the job started for that document, and two uploads never get the same
\* job id.
C13_ResponseJobIdIsBackendJobId ==
    \A r \in Uploads :
        Submitted(r) =>
            /\ task[r].job_id # NoJob => request[r].response.body.job_id = task[r].job_id
            /\ \A q \in Uploads :
                  q # r /\ Submitted(q) =>
                      request[q].response.body.job_id # request[r].response.body.job_id

\* the monitor loop of a background workflow is running
Monitoring(t) == task[t].pc \in {"monitor", "sleep"}

\* C14: no two monitor loops that run at the same time poll the same job id.
C14_OneMonitorPerJob ==
    \A t \in Uploads : \A u \in Uploads :
        t # u /\ Monitoring(t) /\ Monitoring(u) => task[t].job_id # task[u].job_id

\* two workflows are in their monitor loops, one polling, one sleeping
C14_Witness ==
    /\ task[1].pc = "sleep" /\ task[2].pc = "monitor"
    /\ task[1].job_id # NoJob /\ task[2].job_id # NoJob

\* what a workflow returns, by its own key and the answers to its own calls
OwnOutcome(t) ==
    LET key == request[t].s3_key
        st == IF task[t].last.op = "check_job_status" THEN task[t].last.out ELSE "SUCCEEDED"
        n == CHOOSE i \in 1..Len(jobs) : jobs[i] = key
    IN  [job_id |-> JobIdOf(n), status |-> st, document_key |-> key,
         results_key |-> IF st = "SUCCEEDED"
                         THEN SubSeq(key, 1, Len(key) - 2) \o <<"_results.json">>
                         ELSE NoneKey]

\* C15: the outcome of a workflow is determined by the answers to its own
\* collaborator calls, whatever the other workflows do meanwhile: a workflow
\* that has returned has returned the id of the job started for its own
\* document, the status of its own last status check, its own document key and
\* the results key made from it (none unless that status is SUCCEEDED); a
\* workflow that has raised has raised the error of its own last call, or
\* TimeoutError after a status check of its own that was not terminal.
C15_WorkflowsIndependent ==
    \A t \in Uploads :
        /\ task[t].pc = "done" =>
              /\ task[t].exc = None
              /\ task[t].last \in {Event("upload_json", "ok")} \cup
                                  {Event("check_job_status", st) : st \in {"FAILED", "PARTIAL_SUCCESS"}}
              /\ task[t].wf_result = OwnOutcome(t)
        /\ task[t].pc = "escaped" =>
              /\ task[t].wf_result = NoneDict
              /\ \/ task[t].exc = "ClientError" /\ task[t].last.out = "ClientError"
                 \/ /\ task[t].exc = "TimeoutError"
                    /\ task[t].last.op = "check_job_status"
                    /\ task[t].last.out \in NonTerminal

\* both workflows have ended, the first with results, the second with FAILED
C15_Witness ==
    /\ task[1].pc = "done" /\ task[1].wf_result.status = "SUCCEEDED"
    /\ task[2].pc = "done" /\ task[2].wf_result.status = "FAILED"
    /\ task[1].wf_result.job_id = JobIdOf(2)

\* C16: an exception raised while a document is processed in the background
\* is logged and does not leave the background task function.
C16_BackgroundExceptionsSwallowed ==
    \A t \in Uploads :
        task[t].exc # None => task[t].logged /\ task[t].pc # "escaped"

\* C17: the results endpoint reads the job's status once; for a status other
\* than SUCCEEDED it answers with that status and a message, without metadata
\* or pages, and no fetch was made; for SUCCEEDED it fetches the results and
\* answers with their metadata and their pages.
C17_ResultsOnlyWhenSucceeded ==
    LET outs == PollOuts
    IN  /\ Len(outs) <= 1
        /\ fetch_pc # "idle" \/ requests # <<>> => outs = <<"SUCCEEDED">>
        /\ res_pc = "responded" /\ res_response.code = 200 =>
              LET body == res_response.body
              IN  /\ outs = <<body.status>>
                  /\ body.job_id = job_id
                  /\ body.status # "SUCCEEDED" =>
                        /\ ~body.has_pages /\ body.pages = <<>>
                        /\ body.document_metadata = NoneDict
                        /\ body.message = "Job is not completed yet"
                        /\ ~Called("get_document_analysis")
                  /\ body.status = "SUCCEEDED" =>
                        /\ fetch_pc = "returned"
                        /\ body.has_pages /\ body.pages = fetch_result.Pages
                        /\ Len(body.pages) = Len(requests)
                        /\ body.document_metadata = fetch_result.DocumentMetadata

\* the results of a job that succeeded were returned, with their three pages
C17_Witness ==
    /\ res_pc = "responded" /\ res_response.code = 200
    /\ res_response.body.status = "SUCCEEDED"
    /\ Len(res_response.body.pages) = 3

\* ===================================================== the narrative grouper
Group(title, content, page_numbers) ==
    [title |-> title, content |-> content, page_numbers |-> page_numbers]

\* C18: for the chunks ("Intro", page 1, title "Intro"), ("body text", page 1),
\* ("Methods", page 2, title "Methods"), ("more text", page 2) the grouper
\* returns the group "Intro" with content "Intro body text" and pages [1], then
\* the group "Methods" with content "Methods more text" and pages [2].
C18_ExampleGroups ==
    grp_pc = "returned" /\ chunks = ExampleChunks =>
        result = << Group(<<"Intro">>, <<"Intro", " ", "body", " ", "text">>, <<1>>),
                    Group(<<"Methods">>, <<"Methods", " ", "more", " ", "text">>, <<2>>) >>

\* the text of a chunk without the white space at its ends
Trimmed(text) ==
    LET inked == {i \in 1..Len(text) : text[i] # " "}
    IN  IF inked = {} THEN <<>>
        ELSE SubSeq(text, CHOOSE i \in inked : \A j \in inked : i <= j,
                          CHOOSE i \in inked : \A j \in inked : j <= i)

HasText(chunk) == Trimmed(chunk.text) # <<>>

HasTitleElement(chunk) ==
    \E i \in 1..Len(chunk.orig_elements) : chunk.orig_elements[i].category = "Title"

\* the titles of a chunk
TitlesOf(chunk) ==
    LET titled == SelectSeq(chunk.orig_elements,
                            LAMBDA elem : elem.category = "Title" /\ Trimmed(elem.text) # <<>>)
    IN  [i \in 1..Len(titled) |-> Trimmed(titled[i].text)]

BearsTitle(chunk) == HasText(chunk) /\ TitlesOf(chunk) # <<>>

\* texts, with sep between each two
RECURSIVE Interleaved(_, _)
Interleaved(sep, texts) ==
    IF texts = <<>> THEN <<>>
    ELSE IF Len(texts) = 1 THEN Head(texts)
    ELSE Head(texts) \o <<sep>> \o Interleaved(sep, Tail(texts))

\* C19: two title-bearing chunks that follow each other with no chunk between
\* them give one single group that carries the titles of both, joined by
\* " | ": when the chunks begin with two such chunks and no later chunk bears a
\* title, the result is one group with that title.
C19_ConsecutiveTitlesJoined ==
    /\ grp_pc = "returned" /\ Len(chunks) >= 2
    /\ BearsTitle(chunks[1]) /\ BearsTitle(chunks[2])
    /\ \A i \in 3..Len(chunks) : ~BearsTitle(chunks[i])
    => /\ Len(result) = 1
       /\ result[1].title = Interleaved(" | ", TitlesOf(chunks[1]) \o TitlesOf(chunks[2]))

\* C20: chunks without any title element, one of them at least with text, give
\* exactly one group, titled "Untitled", whose content is the trimmed texts of
\* the chunks that have text, in chunk order, with one space between each two.
C20_UntitledRoundTrip ==
    /\ grp_pc = "returned"
    /\ \A i \in 1..Len(chunks) : ~HasTitleElement(chunks[i])
    /\ \E i \in 1..Len(chunks) : HasText(chunks[i])
    => LET texts == SelectSeq([i \in 1..Len(chunks) |-> Trimmed(chunks[i].text)],
                              LAMBDA text : text # <<>>)
       IN  /\ Len(result) = 1
           /\ result[1].title = <<"Untitled">>
           /\ result[1].content = Interleaved(" ", texts)

\* chunks without titles, two with different texts and a blank one between,
\* have been grouped
C20_Witness ==
    /\ grp_pc = "returned" /\ Len(chunks) = 3
    /\ \A i \in 1..Len(chunks) : ~HasTitleElement(chunks[i])
    /\ chunks[1].text = <<"b", " ", "c">>
    /\ chunks[2].text = <<" ">>
    /\ chunks[3].text = <<" ", "a", " ">>
    /\ result[1].content = <<"b", " ", "c", " ", "a">>

\* the chunks taken so far that have text, and their trimmed texts
TextChunks == {i \in 1..chunk_no : HasText(chunks[i])}

TextsSoFar ==
    SelectSeq([i \in 1..chunk_no |-> Trimmed(chunks[i].text)], LAMBDA text : text # <<>>)

\* the page numbers a sequence lists
Listed(page_numbers) == {page_numbers[i] : i \in 1..Len(page_numbers)}

\* C21 as the specification states it: the page number of a chunk whose
\* trimmed text is empty is recorded in the page set of the group in progress.
C21_BlankChunkPageRecorded ==
    chunk_no >= 1 /\ ~HasText(chunks[chunk_no]) =>
        chunks[chunk_no].page_number \subseteq current_page_numbers

\* C21, amended: a chunk whose trimmed text is empty is skipped whole: its
\* page number is not recorded and no content is added for it.  The pages of
\* the group in progress and of the groups emitted are pages of chunks with
\* text, every piece of content is the text of such a chunk, and while only
\* chunks without text have been taken nothing at all is accumulated.
C21_BlankChunkSkipped ==
    LET pages_with_text == UNION {chunks[i].page_number : i \in TextChunks}
    IN  /\ current_page_numbers \subseteq pages_with_text
        /\ \A g \in 1..Len(result) : Listed(result[g].page_numbers) \subseteq pages_with_text
        /\ \A i \in 1..Len(current_content) :
              \E k \in TextChunks : current_content[i] = Trimmed(chunks[k].text)
        /\ TextChunks = {} =>
              /\ current_page_numbers = {} /\ current_content = <<>>
              /\ current_titles = <<>> /\ result = <<>>

\* a chunk with text on page 1 and a chunk of white space on page 2 have given
\* one group, on page 1
C21_Witness ==
    /\ grp_pc = "returned" /\ Len(chunks) = 2
    /\ HasText(chunks[1]) /\ chunks[1].page_number = {1}
    /\ ~HasText(chunks[2]) /\ chunks[2].page_number = {2}
    /\ Len(result) = 1 /\ result[1].page_numbers = <<1>>

\* the contents are the texts, in order, each content the texts of some
\* chunks that follow each other
RECURSIVE InOrder(_, _)
InOrder(contents, texts) ==
    IF contents = <<>> THEN texts = <<>>
    ELSE \E n \in 1..Len(texts) :
            /\ Head(contents) = Interleaved(" ", SubSeq(texts, 1, n))
            /\ InOrder(Tail(contents), SubSeq(texts, n + 1, Len(texts)))

\* the group save_current_group makes of what is accumulated
GroupInProgress ==
    Group(IF current_titles = <<>> THEN <<"Untitled">> ELSE Interleaved(" | ", current_titles),
          Interleaved(" ", current_content),
          result[Len(result)].page_numbers)

\* C22: the groups come in chunk order, and so do the texts inside them: the
\* contents of the groups emitted, followed while the loop runs by the content
\* in progress, are the texts of the chunks taken so far, in order and each
\* once.  The function returns after the last chunk, and then the group that
\* was in progress is the last group of the result, once.
C22_ArrivalOrderAndFinalFlush ==
    LET emitted == [g \in 1..Len(result) |-> result[g].content]
        pending == IF grp_pc = "loop" /\ current_content # <<>>
                   THEN <<Interleaved(" ", current_content)>> ELSE <<>>
    IN  /\ InOrder(emitted \o pending, TextsSoFar)
        /\ grp_pc = "returned" =>
              /\ chunk_no = Len(chunks)
              /\ current_titles # <<>> \/ current_content # <<>> =>
                    /\ result # <<>>
                    /\ result[Len(result)] = GroupInProgress

\* three chunks have given two groups, the second of two chunks
C22_Witness ==
    /\ grp_pc = "returned" /\ Len(chunks) = 3
    /\ Len(result) = 2
    /\ result[1].content = <<"a">>
    /\ result[2].content = <<"b", " ", "c", " ", "a">>

\* C23: every group emitted has a title or a content that is not empty; its
\* title is the titles accumulated for it joined by " | ", which are the
\* titles of a title-bearing chunk, or "Untitled" when none was accumulated,
\* which happens for the first group only; its page numbers are strictly
\* ascending.
C23_GroupsWellFormed ==
    /\ \A g \in 1..Len(result) :
          LET group == result[g]
          IN  /\ group.title # <<>> \/ group.content # <<>>
              /\ \/ group.title = <<"Untitled">> /\ g = 1
                 \/ \E k \in TextChunks :
                       /\ TitlesOf(chunks[k]) # <<>>
                       /\ group.title = Interleaved(" | ", TitlesOf(chunks[k]))
              /\ \A i \in 1..(Len(group.page_numbers) - 1) :
                    group.page_numbers[i] < group.page_numbers[i + 1]
    /\ grp_pc = "returned" /\ result # <<>> =>
          result[Len(result)].title =
              IF current_titles = <<>> THEN <<"Untitled">>
              ELSE Interleaved(" | ", current_titles)

\* a group with two titles and two pages has been emitted
C23_Witness ==
    /\ grp_pc = "returned" /\ Len(result) = 1
    /\ result[1].title = <<"T", " | ", "U">>
    /\ result[1].page_numbers = <<1, 2>>

\* C24: no chunks, or only chunks whose trimmed text is empty, give no group,
\* whatever page numbers the chunks carry.
C24_NothingFromBlankChunks ==
    grp_pc = "returned" /\ (\A i \in 1..Len(chunks) : ~HasText(chunks[i])) => result = <<>>

\* two chunks of white space, on pages 1 and 2, have given no group
C24_Witness ==
    /\ grp_pc = "returned" /\ Len(chunks) = 2
    /\ ~HasText(chunks[1]) /\ chunks[1].page_number = {1}
    /\ ~HasText(chunks[2]) /\ chunks[2].page_number = {2}
    /\ result = <<>>

\* =========================================== the job monitor, continued
\* the interval the monitor running sleeps for
Interval == IF mon_fn = "monitor_job_progress" THEN polling_interval ELSE delay

Ended == mon_pc \in {"returned", "TimeoutError", "ClientError"}

\* C25: a monitor has no side effect other than status queries: the only
\* collaborator operation it calls is the status check (between its sleeps),
\* for the job id it was given; no analysis job is started, no results are
\* fetched or stored, and nothing is written to the bucket.
C25_MonitorOnlyQueriesStatus ==
    /\ \A i \in 1..Len(calls) : calls[i].op \in {"check_job_status", "sleep"}
    /\ job_id = "job-1"
    /\ bucket = {}
    /\ ~FetchEntered /\ pages = <<>> /\ fetch_result = NoneDict
    /\ ~PersistEntered /\ results_key = NoneKey

\* a monitor has ended after several status checks
C25_Witness ==
    /\ Ended /\ Len(Polls) >= 3
    /\ bucket = {}

\* C26: both monitors end, whatever statuses the backend reports, also when
\* it reports non-terminal statuses only.  wait_for_job_completion makes at
\* most max_attempts status checks; monitor_job_progress, whose sleeps each
\* advance the clock by the polling interval at least, a positive number,
\* makes a check only while the time slept before it is below max_time, which
\* bounds its checks by max_time.
C26_MonitorsTerminate ==
    /\ [](LET k == Len(Polls)
          IN  /\ mon_fn = "wait_for_job_completion" => k <= max_attempts
              /\ (mon_fn = "monitor_job_progress" /\ k >= 1) =>
                    /\ (k - 1) * polling_interval < max_time
                    /\ k <= max_time)
    /\ <>Ended

\* wait_for_job_completion has timed out after max_attempts checks that all
\* reported a non-terminal status
C26_Witness ==
    /\ mon_fn = "wait_for_job_completion" /\ mon_pc = "TimeoutError"
    /\ max_attempts = MaxAttempts /\ Len(Polls) = max_attempts
    /\ \A i \in 1..Len(Polls) : PollOuts[i] \in NonTerminal

\* C27: a status check that reports a non-terminal status is followed by one
\* sleep of the configured interval before anything else happens, and a sleep
\* follows such a check only: the sleeps are as many as these checks (but for
\* the sleep about to be made), no two status checks are made back to back,
\* and a TimeoutError after at least one check is raised directly after a sleep.
C27_SleepAfterEachNonTerminalCheck ==
    LET n == Len(calls)
        pending == IF mon_pc = "sleep" THEN 1 ELSE 0
        waited(i) == calls[i].op = "check_job_status" /\ calls[i].out \in NonTerminal
    IN  /\ \A i \in 1..n : waited(i) =>
              IF i < n THEN calls[i + 1].op = "sleep" /\ calls[i + 1].seconds = Interval
              ELSE mon_pc = "sleep"
        /\ \A i \in 1..n : calls[i].op = "sleep" => i > 1 /\ waited(i - 1)
        /\ mon_pc = "sleep" => n >= 1 /\ waited(n)
        /\ Len(Sleeps) + pending = Cardinality({i \in 1..n : waited(i)})
        /\ \A i \in 1..(n - 1) :
              ~(calls[i].op = "check_job_status" /\ calls[i + 1].op = "check_job_status")
        /\ (mon_pc = "TimeoutError" /\ Len(Polls) >= 1) =>
              calls[n].op = "sleep" /\ calls[n].seconds = Interval

\* a monitor has timed out after two checks, each followed by a sleep
C27_Witness ==
    /\ mon_pc = "TimeoutError"
    /\ Len(Polls) = 2 /\ Len(Sleeps) = 2
    /\ calls[Len(calls)].op = "sleep"

\* ======================================== the results fetch, continued
\* C28: the first request of get_document_analysis carries no token and
\* every later request carries the NextToken of the response before it,
\* whatever token that is, the empty one as well: the first page is never
\* requested again.  The loop goes on while the responses carry a NextToken and
\* stops at the first response without one.
C28_RequestsFollowTokens ==
    /\ requests # <<>> => requests[1] = NoToken
    /\ fetch_pc \in {"request", "returned", "ClientError"} =>
          \A i \in 2..Len(requests) :
              /\ requests[i] = pages[i - 1].NextToken
              /\ requests[i] # NoToken
    /\ fetch_pc = "request" => \A i \in 1..Len(pages) : HasNextToken(pages[i])
    /\ fetch_pc = "returned" =>
          /\ pages # <<>> /\ ~HasNextToken(pages[Len(pages)])
          /\ \A i \in 1..(Len(pages) - 1) : HasNextToken(pages[i])

\* ========================================= the narrative grouper, continued
\* the chunks with text, in order
TextChunkSeq == SelectSeq([i \in 1..chunk_no |-> i], LAMBDA i : HasText(chunks[i]))

\* the groups are made of the chunks of the indices, in order, each group
\* listing the pages of its chunks and no other
RECURSIVE PagesOfOwnChunks(_, _)
PagesOfOwnChunks(groups, indices) ==
    IF groups = <<>> THEN indices = <<>>
    ELSE \E n \in 1..Len(indices) :
            /\ Head(groups).content =
                  Interleaved(" ", [i \in 1..n |-> Trimmed(chunks[indices[i]].text)])
            /\ Listed(Head(groups).page_numbers) =
                  UNION {chunks[indices[i]].page_number : i \in 1..n}
            /\ PagesOfOwnChunks(Tail(groups), SubSeq(indices, n + 1, Len(indices)))

\* C29: the page numbers of a group are the page numbers of the chunks whose
\* text is in its content: a group does not list the page of a chunk of
\* another group, and so not the page of the title-bearing chunk at which it
\* was emitted.
C29_PagesOfOwnChunksOnly ==
    grp_pc = "returned" => PagesOfOwnChunks(result, TextChunkSeq)

\* C30: no text is lost and none is duplicated: the contents of the groups
\* emitted and the content in progress, joined by single spaces, are the
\* trimmed texts of the chunks with text taken so far, joined by single
\* spaces; on return, the contents of the groups are the texts of all chunks
\* with text.  Every group emitted has a content that is not empty.
C30_NoTextLostOrDuplicated ==
    LET emitted == [g \in 1..Len(result) |-> result[g].content]
        pending == IF grp_pc = "loop" THEN current_content ELSE <<>>
    IN  /\ Interleaved(" ", emitted \o pending) = Interleaved(" ", TextsSoFar)
        /\ \A g \in 1..Len(result) : result[g].content # <<>>
        /\ grp_pc = "returned" =>
              /\ chunk_no = Len(chunks)
              /\ Len(result) <= Cardinality(TextChunks)

\* a text, a chunk of white space and a title-bearing chunk have given two
\* groups that hold the two texts
C30_Witness ==
    /\ grp_pc = "returned" /\ Len(chunks) = 3
    /\ HasText(chunks[1]) /\ ~HasText(chunks[2]) /\ BearsTitle(chunks[3])
    /\ Len(result) = 2
    /\ result[1].content = Trimmed(chunks[1].text)
    /\ result[2].content = Trimmed(chunks[3].text)

\* the first chunk with text taken so far has no title
StartsUntitled ==
    TextChunks # {} /\ ~BearsTitle(chunks[CHOOSE i \in TextChunks : \A j \in TextChunks : i <= j])

Handled == SelectSeq(sqs_calls, LAMBDA e : e.op = "handler")

Deletes == SelectSeq(sqs_calls, LAMBDA e : e.op = "delete_message")

\* the outcome of the handler call, of the delete call, for a message
HandlerOk(id) == \E i \in 1..Len(sqs_calls) :
    sqs_calls[i].op = "handler" /\ sqs_calls[i].message = id /\ sqs_calls[i].out = "ok"

DeleteCalled(id) == \E i \in 1..Len(sqs_calls) :
    sqs_calls[i].op = "delete_message" /\ sqs_calls[i].message = id

DeleteOk(id) == \E i \in 1..Len(sqs_calls) :
    sqs_calls[i] = SqsEvent("delete_message", id, "ok")

\* C32: process_messages calls the handler for the received messages in
\* receive order, each once, and calls delete_message for a message if and
\* only if its handler returned without raising, directly after the handler
\* call and never before it.  A message whose handler raised stays in the
\* queue; the loop goes on to the later messages and the exception does not
\* leave process_messages, which returns once every message was handled.  A
\* message has left the queue if and only if its handler returned and its
\* delete succeeded, and the count returned is the number of these messages.
C32_DeleteIffHandled ==
    LET handled == Handled
        done == message_no + (IF sqs_pc = "delete" THEN 1 ELSE 0)
        ids == {messages[i].MessageId : i \in 1..Len(messages)}
        finished == {messages[i].MessageId : i \in 1..message_no}
    IN  /\ Len(handled) = done
        /\ \A i \in 1..Len(handled) :
              /\ handled[i].message = messages[i].MessageId
              /\ handled[i].body = ParseBody(messages[i].Body)
        /\ \A id \in finished : DeleteCalled(id) <=> HandlerOk(id)
        /\ \A i \in 1..Len(sqs_calls) : sqs_calls[i].op = "delete_message" =>
              /\ i > 1
              /\ sqs_calls[i - 1].op = "handler" /\ sqs_calls[i - 1].out = "ok"
              /\ sqs_calls[i - 1].message = sqs_calls[i].message
        /\ Len(Deletes) <= Len(handled)
        /\ sqs_pc \in {"loop", "delete", "returned"} =>
              \A id \in queue \cup ids :
                  id \notin queue <=> (id \in finished /\ HandlerOk(id) /\ DeleteOk(id))
        /\ sqs_pc \in {"loop", "delete", "returned"} =>
              processed_count = Cardinality({id \in ids : DeleteOk(id)})
        /\ sqs_pc = "ClientError" =>
              sqs_calls = <<SqsEvent("receive_message", 0, "ClientError")>>
        /\ sqs_pc = "returned" =>
              /\ message_no = Len(messages) /\ Len(handled) = Len(messages)
              /\ sqs_result = Cardinality({id \in ids : HandlerOk(id) /\ DeleteOk(id)})

\* three messages were received, not in the order of their ids; the handler
\* raised for the second, which is still in the queue, and the two others were
\* handled and deleted
C32_Witness ==
    /\ sqs_pc = "returned" /\ Len(messages) = 3
    /\ messages[1].MessageId = 2
    /\ HandlerOk(messages[1].MessageId) /\ DeleteOk(messages[1].MessageId)
    /\ ~HandlerOk(messages[2].MessageId) /\ messages[2].MessageId \in queue
    /\ HandlerOk(messages[3].MessageId) /\ DeleteOk(messages[3].MessageId)
    /\ sqs_result = 2
====
